---- MODULE Spec2Model ----
(***************************************************************************)
(* The virtio-gpu device backend: the device state machine of              *)
(* src/src/virtio_gpu.rs (resource table, scanout and cursor binding, the   *)
(* calls it makes into the renderer (rutabaga) and the display) and the     *)
(* wire codec of src/src/protocol.rs.                                       *)
(*                                                                         *)
(* Every command handler is an operator from the device (a record of the    *)
(* fields of VirtioGpu), the command and the outcomes of the adapter calls  *)
(* it makes, to the device after the command, the response it returns and   *)
(* the adapter calls it made, in order.  The renderer and the display are   *)
(* external: each of their calls may succeed or fail, and the model tracks  *)
(* only what a successful call leaves behind (the ids the renderer holds,   *)
(* the surfaces the display holds).                                         *)
(***************************************************************************)
EXTENDS Integers, Sequences, FiniteSets, TLC

(***************************************************************************)
(* Bounds of the model.                                                     *)
(***************************************************************************)
MaxResourceId == 2
MaxDim == 1
MaxScanoutId == 1
MaxSurfaces == 2
MaxCtxId == 1
MaxPos == 1

ResourceIds == 0..MaxResourceId
Dims == 1..MaxDim
ScanoutIds == 0..MaxScanoutId
CtxIds == 1..MaxCtxId

(***************************************************************************)
(* Option<T>: None is the empty set, Some(x) the singleton.                 *)
(***************************************************************************)
None == {}
Some(x) == {x}
is_some(o) == o # {}
is_none(o) == o = {}
unwrap(o) == CHOOSE x \in o : TRUE

\* NonZeroU32::new
NonZeroU32_new(n) == IF n = 0 THEN None ELSE Some(n)

(***************************************************************************)
(* BTreeMap<u32, VirtioGpuResource> as a function on its keys.              *)
(***************************************************************************)
contains_key(m, k) == k \in DOMAIN m
insert(m, k, v) == [x \in (DOMAIN m) \cup {k} |-> IF x = k THEN v ELSE m[x]]
remove(m, k) == [x \in (DOMAIN m) \ {k} |-> m[x]]
EmptyMap == [x \in {} |-> 0]

VirtioGpuResource_new(resource_id, width, height, size) ==
    [resource_id |-> resource_id, width |-> width, height |-> height, size |-> size]

dimensions(resource) == <<resource.width, resource.height>>

(***************************************************************************)
(* Program constants.                                                       *)
(***************************************************************************)
DEFAULT_DSIPLAY_WIDTH == 1920
DEFAULT_DISPLAY_HEIGHT == 1080
RUTABAGA_PIPE_TEXTURE_2D == 2
RUTABAGA_PIPE_BIND_RENDER_TARGET == 2

(***************************************************************************)
(* Responses (VirtioGpuResponseResult): Ok(v) or Err(v) of a response       *)
(* variant; Panic stands for a handler that unwinds instead of returning.   *)
(***************************************************************************)
Ok(v) == [result |-> "Ok", variant |-> v, data |-> <<>>]
OkWith(v, d) == [result |-> "Ok", variant |-> v, data |-> d]
Err(v) == [result |-> "Err", variant |-> v, data |-> <<>>]
Panic == [result |-> "Panic", variant |-> "panic", data |-> <<>>]

\* What a handler leaves: the device, the response, the adapter calls made.
Return(self, r, cs) == [self |-> self, resp |-> r, calls |-> cs]

\* One adapter call: ok is TRUE when it returned Ok(..), Some(..) or true.
RutabagaCall(fn, args, ok) == [adapter |-> "rutabaga", fn |-> fn, args |-> args, ok |-> ok]
DisplayCall(fn, args, ok) == [adapter |-> "display", fn |-> fn, args |-> args, ok |-> ok]

\* The ? operator on a handler's intermediate result.
is_err(r) == r.resp.result # "Ok"

(***************************************************************************)
(* The state: the fields of VirtioGpu, then what the last command returned. *)
(***************************************************************************)
VARIABLES
    resources,            \* BTreeMap<u32, VirtioGpuResource>
    scanout_resource_id,  \* Option<NonZeroU32>
    scanout_surface_id,   \* Option<u32>
    cursor_resource_id,   \* Option<NonZeroU32>
    cursor_surface_id,    \* Option<u32>
    rutabaga,             \* the resource ids the renderer holds
    display,              \* the display: its live surfaces and its next handle
    last_cmd,             \* the last command: [op, cmd]
    resp,                 \* the response it returned
    calls,                \* the adapter calls it made, in order
    lifecycle             \* progress of create, unref, unref, set-scanout on one id

devvars == <<resources, scanout_resource_id, scanout_surface_id,
             cursor_resource_id, cursor_surface_id, rutabaga, display>>
obsvars == <<last_cmd, resp, calls, lifecycle>>

\* The codec at work: the response being encoded and what encode returned.
VARIABLES
    enc_in,               \* [resp, flags, fence_id, ctx_id]
    enc_out,              \* the Result of encode, once it ran
    dec_in,               \* [mem, addr]: guest memory and the command's address
    dec_out,              \* the Result of decode, once it ran
    reenc                 \* as_slice() of the decoded record, once taken

codecvars == <<enc_in, enc_out, dec_in, dec_out, reenc>>

\* Two callers sharing the device behind one exclusive lock.
VARIABLES
    lock,                 \* the callers holding the lock
    inflight,             \* per caller: the command it is running, and where
    acquired              \* per caller: the device when it took the lock

lockvars == <<lock, inflight, acquired>>

\* GpuParameter::default(): the display size the device is built with and
\* keeps for its life.
GpuParameter_default ==
    [display_width |-> DEFAULT_DSIPLAY_WIDTH, display_height |-> DEFAULT_DISPLAY_HEIGHT]

\* The device as one record, as the handlers take it (&mut self).
Self ==
    [resources |-> resources,
     scanout_resource_id |-> scanout_resource_id,
     scanout_surface_id |-> scanout_surface_id,
     cursor_resource_id |-> cursor_resource_id,
     cursor_surface_id |-> cursor_surface_id,
     rutabaga |-> rutabaga,
     display |-> display,
     display_width |-> GpuParameter_default.display_width,
     display_height |-> GpuParameter_default.display_height]

\* VirtioGpu::new(GpuParameter::default())
VirtioGpu_new ==
    [resources |-> EmptyMap,
     scanout_resource_id |-> None,
     scanout_surface_id |-> None,
     cursor_resource_id |-> None,
     cursor_surface_id |-> None,
     rutabaga |-> {},
     display |-> [surfaces |-> {}, next_id |-> 1],
     display_width |-> GpuParameter_default.display_width,
     display_height |-> GpuParameter_default.display_height]

(***************************************************************************)
(* Resource create and unref.                                               *)
(***************************************************************************)
\* Creation with the answer of the query read the other way round.
resource_create_3d_query_confirms(self, resource_id, rc3d, env) ==
    LET create == RutabagaCall("resource_create_3d",
                               [resource_id |-> resource_id, request |-> rc3d],
                               env.create_ok)
        query == RutabagaCall("query", [resource_id |-> resource_id], env.query_ok)
        resource == VirtioGpuResource_new(resource_id, rc3d.width, rc3d.height, 0)
        created == [self EXCEPT !.rutabaga = @ \cup {resource_id},
                                !.resources = insert(@, resource_id, resource)]
    IN  IF ~env.create_ok
        THEN Return(self, Err("RutabagaError"), <<create>>)
        ELSE Return(created,
                    IF env.query_ok THEN Ok("OkNoData") ELSE Ok("ErrInvalidResourceId"),
                    <<create, query>>)

resource_create_3d(self, resource_id, rc3d, env) ==
    LET create == RutabagaCall("resource_create_3d",
                               [resource_id |-> resource_id, request |-> rc3d],
                               env.create_ok)
        query == RutabagaCall("query", [resource_id |-> resource_id], env.query_ok)
        resource == VirtioGpuResource_new(resource_id, rc3d.width, rc3d.height, 0)
        created == [self EXCEPT !.rutabaga = @ \cup {resource_id},
                                !.resources = insert(@, resource_id, resource)]
    IN  IF ~env.create_ok
        THEN Return(self, Err("RutabagaError"), <<create>>)
        ELSE Return(created,
                    IF env.query_ok THEN Ok("ErrInvalidResourceId") ELSE Ok("OkNoData"),
                    <<create, query>>)

\* Create-2D that asks the renderer for a resource of depth 0.
cmd_resource_create_2d_flat(self, cmd, env) ==
    LET rc3d == [target |-> RUTABAGA_PIPE_TEXTURE_2D,
                 format |-> cmd.format,
                 bind |-> RUTABAGA_PIPE_BIND_RENDER_TARGET,
                 width |-> cmd.width,
                 height |-> cmd.height,
                 depth |-> 0,
                 array_size |-> 1,
                 last_level |-> 0,
                 nr_samples |-> 0,
                 flags |-> 0]
    IN  resource_create_3d(self, cmd.resource_id, rc3d, env)

cmd_resource_create_2d(self, cmd, env) ==
    LET rc3d == [target |-> RUTABAGA_PIPE_TEXTURE_2D,
                 format |-> cmd.format,
                 bind |-> RUTABAGA_PIPE_BIND_RENDER_TARGET,
                 width |-> cmd.width,
                 height |-> cmd.height,
                 depth |-> 1,
                 array_size |-> 1,
                 last_level |-> 0,
                 nr_samples |-> 0,
                 flags |-> 0]
    IN  resource_create_3d(self, cmd.resource_id, rc3d, env)

cmd_resource_create_3d(self, cmd, env) ==
    LET rc3d == [target |-> cmd.target,
                 format |-> cmd.format,
                 bind |-> cmd.bind,
                 width |-> cmd.width,
                 height |-> cmd.height,
                 depth |-> cmd.depth,
                 array_size |-> cmd.array_size,
                 last_level |-> cmd.last_level,
                 nr_samples |-> cmd.nr_samples,
                 flags |-> cmd.flags]
    IN  resource_create_3d(self, cmd.resource_id, rc3d, env)

\* Unref with the two steps swapped: the local record goes first, and stays
\* gone when the renderer then refuses.
cmd_resource_unref_local_first(self, cmd, env) ==
    LET unref == RutabagaCall("unref_resource", [resource_id |-> cmd.resource_id],
                              env.unref_ok)
        removed == [self EXCEPT !.resources = remove(@, cmd.resource_id)]
    IN  IF ~contains_key(self.resources, cmd.resource_id)
        THEN Return(self, Err("ErrInvalidResourceId"), <<>>)
        ELSE IF ~env.unref_ok
        THEN Return(removed, Err("RutabagaError"), <<unref>>)
        ELSE Return([removed EXCEPT !.rutabaga = @ \ {cmd.resource_id}],
                    Ok("OkNoData"), <<unref>>)

\* Unref that takes an absent local record for a success.
cmd_resource_unref_ignoring_absent(self, cmd, env) ==
    LET unref == RutabagaCall("unref_resource", [resource_id |-> cmd.resource_id],
                              env.unref_ok)
        released == [self EXCEPT !.rutabaga = @ \ {cmd.resource_id}]
    IN  IF ~env.unref_ok
        THEN Return(self, Err("RutabagaError"), <<unref>>)
        ELSE IF contains_key(self.resources, cmd.resource_id)
             THEN Return([released EXCEPT !.resources = remove(@, cmd.resource_id)],
                         Ok("OkNoData"), <<unref>>)
             ELSE Return(released, Ok("OkNoData"), <<unref>>)

cmd_resource_unref(self, cmd, env) ==
    LET unref == RutabagaCall("unref_resource", [resource_id |-> cmd.resource_id],
                              env.unref_ok)
        released == [self EXCEPT !.rutabaga = @ \ {cmd.resource_id}]
    IN  IF ~env.unref_ok
        THEN Return(self, Err("RutabagaError"), <<unref>>)
        ELSE IF contains_key(self.resources, cmd.resource_id)
             THEN Return([released EXCEPT !.resources = remove(@, cmd.resource_id)],
                         Ok("OkNoData"), <<unref>>)
             ELSE Return(released, Err("ErrInvalidResourceId"), <<unref>>)

(***************************************************************************)
(* Set scanout.                                                             *)
(***************************************************************************)
\* Set scanout without the lookup in the resource table.
cmd_set_scanout_unchecked(self, cmd) ==
    IF cmd.resource_id = 0
    THEN Return([self EXCEPT !.scanout_surface_id = None,
                             !.scanout_resource_id = None],
                Ok("OkNoData"), <<>>)
    ELSE Return([self EXCEPT
                   !.scanout_resource_id = NonZeroU32_new(cmd.resource_id),
                   !.scanout_surface_id =
                       IF is_none(@) THEN Some(cmd.scanout_id) ELSE @],
                Ok("OkNoData"), <<>>)

\* Set scanout whose clearing forgets the surface.
cmd_set_scanout_keep_surface(self, cmd) ==
    IF cmd.resource_id = 0
    THEN Return([self EXCEPT !.scanout_resource_id = None], Ok("OkNoData"), <<>>)
    ELSE IF ~contains_key(self.resources, cmd.resource_id)
         THEN Return(self, Err("ErrInvalidResourceId"), <<>>)
         ELSE Return([self EXCEPT
                        !.scanout_resource_id = NonZeroU32_new(cmd.resource_id),
                        !.scanout_surface_id =
                            IF is_none(@) THEN Some(cmd.scanout_id) ELSE @],
                     Ok("OkNoData"), <<>>)

\* Set scanout that drops the binding when the resource is missing.
cmd_set_scanout_unbind_on_missing(self, cmd) ==
    IF cmd.resource_id = 0
    THEN Return([self EXCEPT !.scanout_surface_id = None,
                             !.scanout_resource_id = None],
                Ok("OkNoData"), <<>>)
    ELSE IF ~contains_key(self.resources, cmd.resource_id)
         THEN Return([self EXCEPT !.scanout_resource_id = None],
                     Err("ErrInvalidResourceId"), <<>>)
         ELSE Return([self EXCEPT
                        !.scanout_resource_id = NonZeroU32_new(cmd.resource_id),
                        !.scanout_surface_id =
                            IF is_none(@) THEN Some(cmd.scanout_id) ELSE @],
                     Ok("OkNoData"), <<>>)

\* Set-scanout that takes the surface from every command's scanout_id.
cmd_set_scanout_rebind_surface(self, cmd) ==
    IF cmd.resource_id = 0
    THEN Return([self EXCEPT !.scanout_surface_id = None,
                             !.scanout_resource_id = None],
                Ok("OkNoData"), <<>>)
    ELSE IF ~contains_key(self.resources, cmd.resource_id)
         THEN Return(self, Err("ErrInvalidResourceId"), <<>>)
         ELSE Return([self EXCEPT
                        !.scanout_resource_id = NonZeroU32_new(cmd.resource_id),
                        !.scanout_surface_id = Some(cmd.scanout_id)],
                     Ok("OkNoData"), <<>>)

cmd_set_scanout(self, cmd) ==
    IF cmd.resource_id = 0
    THEN Return([self EXCEPT !.scanout_surface_id = None,
                             !.scanout_resource_id = None],
                Ok("OkNoData"), <<>>)
    ELSE IF ~contains_key(self.resources, cmd.resource_id)
         THEN Return(self, Err("ErrInvalidResourceId"), <<>>)
         ELSE Return([self EXCEPT
                        !.scanout_resource_id = NonZeroU32_new(cmd.resource_id),
                        !.scanout_surface_id =
                            IF is_none(@) THEN Some(cmd.scanout_id) ELSE @],
                     Ok("OkNoData"), <<>>)

(***************************************************************************)
(* Resource flush.                                                          *)
(***************************************************************************)
import_to_display(self, resource_id) == None

\* rutabaga_gfx::Transfer3D::new_2d
Transfer3D_new_2d(x, y, w, h) ==
    [x |-> x, y |-> y, z |-> 0, w |-> w, h |-> h, d |-> 1,
     level |-> 0, stride |-> 0, layer_stride |-> 0, offset |-> 0]

\* GpuDisplayFramebuffer::stride: four bytes a pixel.
fb_stride(width) == 4 * width

\* A present that copies into the next buffer whether or not it is in use.
flush_resource_to_surface_overwriting(self, resource_id, surface_id, env) ==
    LET import == import_to_display(self, resource_id)
        flip_to == DisplayCall("flip_to",
                               [surface_id |-> surface_id, import_id |-> unwrap(import)], TRUE)
        in_use == DisplayCall("next_buffer_in_use", [surface_id |-> surface_id], env.in_use)
        fb == DisplayCall("framebuffer_region",
                          [surface_id |-> surface_id, x |-> 0, y |-> 0,
                           width |-> self.display_width,
                           height |-> self.display_height], env.fb_ok)
        transfer == [Transfer3D_new_2d(0, 0, self.display_width, self.display_height)
                        EXCEPT !.stride = fb_stride(self.display_width)]
        read == RutabagaCall("transfer_read",
                             [ctx_id |-> 0, resource_id |-> resource_id,
                              transfer |-> transfer, buf |-> Some(surface_id)],
                             env.transfer_ok)
        flip == DisplayCall("flip", [surface_id |-> surface_id], TRUE)
    IN  IF is_some(import)
        THEN Return(self, Ok("OkNoData"), <<flip_to>>)
        ELSE IF ~contains_key(self.resources, resource_id)
        THEN Return(self, Err("ErrInvalidResourceId"), <<>>)
        ELSE IF ~env.fb_ok
        THEN Return(self, Err("ErrUnspec"), <<in_use, fb>>)
        ELSE IF ~env.transfer_ok
        THEN Return(self, Err("RutabagaError"), <<in_use, fb, read>>)
        ELSE Return(self, Ok("OkNoData"), <<in_use, fb, read, flip>>)

flush_resource_to_surface(self, resource_id, surface_id, env) ==
    LET import == import_to_display(self, resource_id)
        flip_to == DisplayCall("flip_to",
                               [surface_id |-> surface_id, import_id |-> unwrap(import)], TRUE)
        in_use == DisplayCall("next_buffer_in_use", [surface_id |-> surface_id], env.in_use)
        fb == DisplayCall("framebuffer_region",
                          [surface_id |-> surface_id, x |-> 0, y |-> 0,
                           width |-> self.display_width,
                           height |-> self.display_height], env.fb_ok)
        transfer == [Transfer3D_new_2d(0, 0, self.display_width, self.display_height)
                        EXCEPT !.stride = fb_stride(self.display_width)]
        read == RutabagaCall("transfer_read",
                             [ctx_id |-> 0, resource_id |-> resource_id,
                              transfer |-> transfer, buf |-> Some(surface_id)],
                             env.transfer_ok)
        flip == DisplayCall("flip", [surface_id |-> surface_id], TRUE)
    IN  IF is_some(import)
        THEN Return(self, Ok("OkNoData"), <<flip_to>>)
        ELSE IF ~contains_key(self.resources, resource_id)
        THEN Return(self, Err("ErrInvalidResourceId"), <<>>)
        ELSE IF env.in_use
        THEN Return(self, Ok("OkNoData"), <<in_use>>)
        ELSE IF ~env.fb_ok
        THEN Return(self, Err("ErrUnspec"), <<in_use, fb>>)
        ELSE IF ~env.transfer_ok
        THEN Return(self, Err("RutabagaError"), <<in_use, fb, read>>)
        ELSE Return(self, Ok("OkNoData"), <<in_use, fb, read, flip>>)

cmd_flush_resource(self, cmd, env) ==
    LET resource_id == cmd.resource_id
        nothing(s) == Return(s, Ok("OkNoData"), <<>>)
        scanout ==
            IF /\ is_some(self.scanout_resource_id)
               /\ is_some(self.scanout_surface_id)
               /\ unwrap(self.scanout_resource_id) = resource_id
            THEN flush_resource_to_surface(self, resource_id,
                                           unwrap(self.scanout_surface_id), env.scanout)
            ELSE nothing(self)
        cursor ==
            IF /\ is_some(scanout.self.cursor_resource_id)
               /\ is_some(scanout.self.cursor_surface_id)
               /\ unwrap(scanout.self.cursor_resource_id) = resource_id
            THEN flush_resource_to_surface(scanout.self, resource_id,
                                           unwrap(scanout.self.cursor_surface_id), env.cursor)
            ELSE nothing(scanout.self)
    IN  IF resource_id = 0
        THEN nothing(self)
        ELSE IF is_err(scanout)
        THEN scanout
        ELSE IF is_err(cursor)
        THEN Return(cursor.self, cursor.resp, scanout.calls \o cursor.calls)
        ELSE Return(cursor.self, Ok("OkNoData"), scanout.calls \o cursor.calls)

(***************************************************************************)
(* Commands forwarded to the renderer: one call, its error passed through.  *)
(***************************************************************************)
forward(self, fn, args, ok) ==
    IF ok
    THEN Return(self, Ok("OkNoData"), <<RutabagaCall(fn, args, TRUE)>>)
    ELSE Return(self, Err("RutabagaError"), <<RutabagaCall(fn, args, FALSE)>>)

cmd_get_display_info(self, cmd) ==
    Return(self,
           OkWith("OkDisplayInfo", <<<<self.display_width, self.display_height>>>>),
           <<>>)

cmd_context_create(self, cmd, env) ==
    forward(self, "create_context", [ctx_id |-> cmd.hdr.ctx_id, context_init |-> 0], env.ok)

cmd_context_destroy(self, cmd, env) ==
    forward(self, "destroy_context", [ctx_id |-> cmd.hdr.ctx_id], env.ok)

\* The EDID block: the 256 bytes of edid_vec copied, index by index, into
\* an array of 1024; an index past the array unwinds.
EDID_VEC_LEN == 256
EDID_ARRAY_LEN == 1024

cmd_get_edid(self, cmd) ==
    IF \E pos \in 0..(EDID_VEC_LEN - 1) : pos >= EDID_ARRAY_LEN
    THEN Return(self, Panic, <<>>)
    ELSE Return(self, OkWith("OkEdid", <<EDID_VEC_LEN>>), <<>>)

cmd_get_capset_info(self, cmd, env) ==
    LET call == RutabagaCall("get_capset_info", [capset_index |-> cmd.capset_index], env.ok)
    IN  IF env.ok
        THEN Return(self, OkWith("OkCapsetInfo", env.info), <<call>>)
        ELSE Return(self, Err("RutabagaError"), <<call>>)

cmd_get_capset(self, cmd, env) ==
    LET call == RutabagaCall("get_capset",
                             [capset_id |-> cmd.capset_id, version |-> cmd.capset_version],
                             env.ok)
    IN  IF env.ok
        THEN Return(self, OkWith("OkCapset", env.capset), <<call>>)
        ELSE Return(self, Err("RutabagaError"), <<call>>)

cmd_resource_attach_backing(self, cmd, data, env) ==
    forward(self, "attach_backing", [resource_id |-> cmd.resource_id, data |-> data], env.ok)

\* Detach-backing that also drops the resource from the table.
cmd_resource_detach_backing_forgetting(self, cmd, env) ==
    LET r == forward(self, "detach_backing", [resource_id |-> cmd.resource_id], env.ok)
    IN  Return([self EXCEPT !.resources = remove(@, cmd.resource_id)], r.resp, r.calls)

cmd_resource_detach_backing(self, cmd, env) ==
    forward(self, "detach_backing", [resource_id |-> cmd.resource_id], env.ok)

cmd_ctx_attach_resource(self, cmd, env) ==
    forward(self, "context_attach_resource",
            [ctx_id |-> cmd.hdr.ctx_id, resource_id |-> cmd.resource_id], env.ok)

cmd_ctx_detach_resource(self, cmd, env) ==
    forward(self, "context_detach_resource",
            [ctx_id |-> cmd.hdr.ctx_id, resource_id |-> cmd.resource_id], env.ok)

cmd_submit_3d(self, cmd, data, env) ==
    forward(self, "submit_command", [ctx_id |-> cmd.hdr.ctx_id, data |-> data], env.ok)

cmd_transfer_to_host_2d(self, cmd, env) ==
    LET transfer == Transfer3D_new_2d(cmd.r.x, cmd.r.y, cmd.r.width, cmd.r.height)
    IN  forward(self, "transfer_write",
                [ctx_id |-> cmd.hdr.ctx_id, resource_id |-> cmd.resource_id,
                 transfer |-> transfer], env.ok)

transfer_host_3d_to_transfer_3d(cmd) ==
    [x |-> cmd.box_.x, y |-> cmd.box_.y, z |-> cmd.box_.z,
     w |-> cmd.box_.w, h |-> cmd.box_.h, d |-> cmd.box_.d,
     level |-> cmd.level, stride |-> cmd.stride,
     layer_stride |-> cmd.layer_stride, offset |-> cmd.offset]

cmd_transfer_to_host_3d(self, cmd, env) ==
    forward(self, "transfer_write",
            [ctx_id |-> cmd.hdr.ctx_id, resource_id |-> cmd.resource_id,
             transfer |-> transfer_host_3d_to_transfer_3d(cmd)], env.ok)

cmd_transfer_from_host_3d(self, cmd, env) ==
    forward(self, "transfer_read",
            [ctx_id |-> cmd.hdr.ctx_id, resource_id |-> cmd.resource_id,
             transfer |-> transfer_host_3d_to_transfer_3d(cmd), buf |-> None], env.ok)

\* u32::to_be_bytes
to_be_bytes(n) ==
    <<(n \div 16777216) % 256, (n \div 65536) % 256, (n \div 256) % 256, n % 256>>

\* Assign-uuid that writes the id least significant byte first.
cmd_resource_assign_uuid_le(self, cmd) ==
    LET be == to_be_bytes(cmd.resource_id)
        uuid == [i \in 1..16 |-> IF i <= 12 THEN 0 ELSE be[17 - i]]
    IN  IF ~contains_key(self.resources, cmd.resource_id)
        THEN Return(self, Err("ErrInvalidResourceId"), <<>>)
        ELSE IF \E idx \in 0..(Len(be) - 1) : 12 + idx >= 16
        THEN Return(self, Panic, <<>>)
        ELSE Return(self, OkWith("OkResourceUuid", uuid), <<>>)

cmd_resource_assign_uuid(self, cmd) ==
    LET be == to_be_bytes(cmd.resource_id)
        uuid == [i \in 1..16 |-> IF i <= 12 THEN 0 ELSE be[i - 12]]
    IN  IF ~contains_key(self.resources, cmd.resource_id)
        THEN Return(self, Err("ErrInvalidResourceId"), <<>>)
        ELSE IF \E idx \in 0..(Len(be) - 1) : 12 + idx >= 16
        THEN Return(self, Panic, <<>>)
        ELSE Return(self, OkWith("OkResourceUuid", uuid), <<>>)

create_fence(self, request_fence_data, env) ==
    forward(self, "create_fence", request_fence_data, env.ok)

(***************************************************************************)
(* Cursor.                                                                  *)
(***************************************************************************)
\* GpuDisplay::create_surface, when it succeeds: the next handle.
display_create_surface(d) ==
    [surfaces |-> d.surfaces \cup {d.next_id}, next_id |-> d.next_id + 1]

\* GpuDisplay::release_surface
display_release_surface(d, surface_id) ==
    [d EXCEPT !.surfaces = @ \ {surface_id}]

\* Cursor move that commits before it sets the position.
cmd_move_curosr_commit_first(self, cmd) ==
    LET x == cmd.pos.x
        y == cmd.pos.y
    IN  IF is_some(self.cursor_surface_id) /\ is_some(self.scanout_surface_id)
        THEN Return(self, Ok("OkNoData"),
                    <<DisplayCall("commit",
                                  [surface_id |-> unwrap(self.scanout_surface_id)], TRUE),
                      DisplayCall("set_position",
                                  [surface_id |-> unwrap(self.cursor_surface_id),
                                   x |-> x, y |-> y], TRUE)>>)
        ELSE Return(self, Ok("OkNoData"), <<>>)

cmd_move_curosr(self, cmd) ==
    LET x == cmd.pos.x
        y == cmd.pos.y
    IN  IF is_some(self.cursor_surface_id) /\ is_some(self.scanout_surface_id)
        THEN Return(self, Ok("OkNoData"),
                    <<DisplayCall("set_position",
                                  [surface_id |-> unwrap(self.cursor_surface_id),
                                   x |-> x, y |-> y], TRUE),
                      DisplayCall("commit",
                                  [surface_id |-> unwrap(self.scanout_surface_id)], TRUE)>>)
        ELSE Return(self, Ok("OkNoData"), <<>>)

\* The part of cmd_update_cursor after the cursor surface exists.
update_cursor_present(self, cmd, dims, before, env) ==
    LET surface_id == unwrap(self.cursor_surface_id)
        set_position == DisplayCall("set_position",
                                    [surface_id |-> surface_id,
                                     x |-> cmd.pos.x, y |-> cmd.pos.y], TRUE)
        import == import_to_display(self, cmd.resource_id)
        flip_to == DisplayCall("flip_to",
                               [surface_id |-> surface_id,
                                import_id |-> unwrap(import)], TRUE)
        fb == DisplayCall("framebuffer", [surface_id |-> surface_id], env.fb_ok)
        transfer == [Transfer3D_new_2d(0, 0, dims[1], dims[2])
                        EXCEPT !.stride = fb_stride(dims[1])]
        read == RutabagaCall("transfer_read",
                             [ctx_id |-> 0, resource_id |-> cmd.resource_id,
                              transfer |-> transfer, buf |-> Some(surface_id)],
                             env.transfer_ok)
        flip == DisplayCall("flip", [surface_id |-> surface_id], TRUE)
    IN  IF is_none(self.cursor_surface_id)
        THEN Return(self, Panic, before)
        ELSE IF is_some(import)
        THEN Return(self, Ok("OkNoData"), before \o <<set_position, flip_to>>)
        ELSE IF ~env.fb_ok
        THEN Return(self, Ok("OkNoData"), before \o <<set_position, fb, flip>>)
        ELSE IF ~env.transfer_ok
        THEN Return(self, Err("RutabagaError"), before \o <<set_position, fb, read>>)
        ELSE Return(self, Ok("OkNoData"), before \o <<set_position, fb, read, flip>>)

\* Cursor update that never creates the cursor surface: with none yet, the
\* unwrap that follows finds nothing.
cmd_update_cursor_no_create(self, cmd, env) ==
    LET resource_id == cmd.resource_id
        taken == [self EXCEPT !.cursor_surface_id = None,
                              !.display = display_release_surface(
                                              @, unwrap(self.cursor_surface_id))]
        release == DisplayCall("release_surface",
                               [surface_id |-> unwrap(self.cursor_surface_id)], TRUE)
        dims == dimensions(self.resources[resource_id])
        bound == [self EXCEPT !.cursor_resource_id = NonZeroU32_new(resource_id)]
    IN  IF resource_id = 0
        THEN IF is_some(self.cursor_surface_id)
             THEN Return([taken EXCEPT !.cursor_resource_id = None],
                         Ok("OkNoData"), <<release>>)
             ELSE Return([self EXCEPT !.cursor_resource_id = None],
                         Ok("OkNoData"), <<>>)
        ELSE IF ~contains_key(self.resources, resource_id)
        THEN Return(self, Err("ErrInvalidResourceId"), <<>>)
        ELSE update_cursor_present(bound, cmd, dims, <<>>, env)

\* Cursor update whose clear forgets the surface without releasing it.
cmd_update_cursor_dropping_surface(self, cmd, env) ==
    LET resource_id == cmd.resource_id
        taken == [self EXCEPT !.cursor_surface_id = None,
                              !.display = display_release_surface(
                                              @, unwrap(self.cursor_surface_id))]
        release == DisplayCall("release_surface",
                               [surface_id |-> unwrap(self.cursor_surface_id)], TRUE)
        dims == dimensions(self.resources[resource_id])
        bound == [self EXCEPT !.cursor_resource_id = NonZeroU32_new(resource_id)]
        create == DisplayCall("create_surface",
                              [parent_surface_id |-> self.scanout_surface_id,
                               width |-> dims[1], height |-> dims[2]], env.create_ok)
        surfaced == [bound EXCEPT !.cursor_surface_id = Some(bound.display.next_id),
                                  !.display = display_create_surface(@)]
    IN  IF resource_id = 0
        THEN IF is_some(self.cursor_surface_id)
             THEN Return([self EXCEPT !.cursor_surface_id = None,
                                      !.cursor_resource_id = None],
                         Ok("OkNoData"), <<>>)
             ELSE Return([self EXCEPT !.cursor_resource_id = None],
                         Ok("OkNoData"), <<>>)
        ELSE IF ~contains_key(self.resources, resource_id)
        THEN Return(self, Err("ErrInvalidResourceId"), <<>>)
        ELSE IF is_some(bound.cursor_surface_id)
        THEN update_cursor_present(bound, cmd, dims, <<>>, env)
        ELSE IF ~env.create_ok
        THEN Return(bound, Err("DisplayErr"), <<create>>)
        ELSE update_cursor_present(surfaced, cmd, dims, <<create>>, env)

\* Cursor update that creates the cursor surface with no parent.
cmd_update_cursor_unparented(self, cmd, env) ==
    LET resource_id == cmd.resource_id
        taken == [self EXCEPT !.cursor_surface_id = None,
                              !.display = display_release_surface(
                                              @, unwrap(self.cursor_surface_id))]
        release == DisplayCall("release_surface",
                               [surface_id |-> unwrap(self.cursor_surface_id)], TRUE)
        dims == dimensions(self.resources[resource_id])
        bound == [self EXCEPT !.cursor_resource_id = NonZeroU32_new(resource_id)]
        create == DisplayCall("create_surface",
                              [parent_surface_id |-> None,
                               width |-> dims[1], height |-> dims[2]], env.create_ok)
        surfaced == [bound EXCEPT !.cursor_surface_id = Some(bound.display.next_id),
                                  !.display = display_create_surface(@)]
    IN  IF resource_id = 0
        THEN IF is_some(self.cursor_surface_id)
             THEN Return([taken EXCEPT !.cursor_resource_id = None],
                         Ok("OkNoData"), <<release>>)
             ELSE Return([self EXCEPT !.cursor_resource_id = None],
                         Ok("OkNoData"), <<>>)
        ELSE IF ~contains_key(self.resources, resource_id)
        THEN Return(self, Err("ErrInvalidResourceId"), <<>>)
        ELSE IF is_some(bound.cursor_surface_id)
        THEN update_cursor_present(bound, cmd, dims, <<>>, env)
        ELSE IF ~env.create_ok
        THEN Return(bound, Err("DisplayErr"), <<create>>)
        ELSE update_cursor_present(surfaced, cmd, dims, <<create>>, env)

cmd_update_cursor(self, cmd, env) ==
    LET resource_id == cmd.resource_id
        taken == [self EXCEPT !.cursor_surface_id = None,
                              !.display = display_release_surface(
                                              @, unwrap(self.cursor_surface_id))]
        release == DisplayCall("release_surface",
                               [surface_id |-> unwrap(self.cursor_surface_id)], TRUE)
        dims == dimensions(self.resources[resource_id])
        bound == [self EXCEPT !.cursor_resource_id = NonZeroU32_new(resource_id)]
        create == DisplayCall("create_surface",
                              [parent_surface_id |-> self.scanout_surface_id,
                               width |-> dims[1], height |-> dims[2]], env.create_ok)
        surfaced == [bound EXCEPT !.cursor_surface_id = Some(bound.display.next_id),
                                  !.display = display_create_surface(@)]
    IN  IF resource_id = 0
        THEN IF is_some(self.cursor_surface_id)
             THEN Return([taken EXCEPT !.cursor_resource_id = None],
                         Ok("OkNoData"), <<release>>)
             ELSE Return([self EXCEPT !.cursor_resource_id = None],
                         Ok("OkNoData"), <<>>)
        ELSE IF ~contains_key(self.resources, resource_id)
        THEN Return(self, Err("ErrInvalidResourceId"), <<>>)
        ELSE IF is_some(bound.cursor_surface_id)
        THEN update_cursor_present(bound, cmd, dims, <<>>, env)
        ELSE IF ~env.create_ok
        THEN Return(bound, Err("DisplayErr"), <<create>>)
        ELSE update_cursor_present(surfaced, cmd, dims, <<create>>, env)

(***************************************************************************)
(* Entry points that return no response.                                    *)
(***************************************************************************)
Value(kind, d) == [result |-> "Value", variant |-> kind, data |-> d]

process_display(self, env) ==
    LET dispatch == DisplayCall("dispatch_events", <<>>, TRUE)
        close == DisplayCall("close_requested",
                             [surface_id |-> unwrap(self.scanout_surface_id)], env.close)
    IN  IF is_some(self.scanout_surface_id)
        THEN Return(self, Value("bool", <<env.close>>), <<dispatch, close>>)
        ELSE Return(self, Value("bool", <<FALSE>>), <<dispatch>>)

fence_poll(self, env) ==
    Return(self, Value("fences", env.fences), <<RutabagaCall("poll", <<>>, TRUE)>>)

force_ctx_0(self) ==
    Return(self, Value("unit", <<>>), <<RutabagaCall("force_ctx_0", <<>>, TRUE)>>)

(***************************************************************************)
(* Guest memory (vm_memory::GuestMemoryMmap): regions of mapped guest       *)
(* addresses, each at a host address.                                       *)
(***************************************************************************)
MaxSpans == 2

GuestMem == {[start |-> 1, len |-> 2, host |-> 101]}

region_of(mem, addr) == {r \in mem : r.start <= addr /\ addr < r.start + r.len}

\* GuestMemory::get_slice(addr, len).is_ok()
get_slice_ok(mem, addr, len) ==
    \E r \in region_of(mem, addr) : (addr - r.start) + len <= r.len

\* GuestMemory::get_host_address, as an Option
get_host_address(mem, addr) ==
    {r.host + (addr - r.start) : r \in region_of(mem, addr)}

\* A translation that leaves out the spans that are not mapped.
sglist_to_rutabaga_iovecs_partial(vecs, mem) ==
    LET valid == SelectSeq(vecs, LAMBDA v : get_slice_ok(mem, v[1], v[2]))
    IN  [resp |-> Ok("iovecs"),
         iovecs |-> [i \in 1..Len(valid) |->
                       [base |-> unwrap(get_host_address(mem, valid[i][1])),
                        len |-> valid[i][2]]]]

sglist_to_rutabaga_iovecs(vecs, mem) ==
    LET address(i) == get_host_address(mem, vecs[i][1])
    IN  IF \E i \in 1..Len(vecs) : ~get_slice_ok(mem, vecs[i][1], vecs[i][2])
        THEN [resp |-> Err("InvalidSglistRegion"), iovecs |-> <<>>]
        ELSE IF \E i \in 1..Len(vecs) : is_none(address(i))
        THEN [resp |-> Panic, iovecs |-> <<>>]
        ELSE [resp |-> Ok("iovecs"),
              iovecs |-> [i \in 1..Len(vecs) |->
                            [base |-> unwrap(address(i)), len |-> vecs[i][2]]]]

(***************************************************************************)
(* The wire codec: responses to bytes.                                      *)
(***************************************************************************)
VIRTIO_GPU_RESP_OK_NODATA == 4352
VIRTIO_GPU_RESP_OK_DISPLAY_INFO == 4353
VIRTIO_GPU_RESP_OK_CAPSET_INFO == 4354
VIRTIO_GPU_RESP_OK_CAPSET == 4355
VIRTIO_GPU_RESP_OK_EDID == 4356
VIRTIO_GPU_RESP_OK_RESOURCE_UUID == 4357
VIRTIO_GPU_RESP_ERR_UNSPEC == 4608
VIRTIO_GPU_RESP_ERR_OUT_OF_MEMORY == 4609
VIRTIO_GPU_RESP_ERR_INVALID_SCANOUT_ID == 4610
VIRTIO_GPU_RESP_ERR_INVALID_RESOURCE_ID == 4611
VIRTIO_GPU_RESP_ERR_INVALID_CONTEXT_ID == 4612
VIRTIO_GPU_RESP_ERR_INVALID_PARAMETER == 4613
VIRTIO_GPU_MAX_SCANOUTS == 16

\* Le32::from(v).as_slice(), Le64::from(v).as_slice(): little-endian bytes.
RECURSIVE le_bytes(_, _)
le_bytes(v, n) == IF n = 0 THEN <<>> ELSE <<v % 256>> \o le_bytes(v \div 256, n - 1)
Le32(v) == le_bytes(v, 4)
Le64(v) == le_bytes(v, 8)

RECURSIVE concat(_)
concat(seqs) == IF seqs = <<>> THEN <<>> ELSE Head(seqs) \o concat(Tail(seqs))

\* virtio_gpu_ctrl_hdr as bytes (repr(C): no padding between its fields).
virtio_gpu_ctrl_hdr(type_, flags, fence_id, ctx_id, padding) ==
    Le32(type_) \o Le32(flags) \o Le64(fence_id) \o Le32(ctx_id) \o Le32(padding)

\* virtio_gpu_display_one as bytes.
virtio_gpu_display_one(x, y, width, height, enabled, flags) ==
    Le32(x) \o Le32(y) \o Le32(width) \o Le32(height) \o Le32(enabled) \o Le32(flags)

\* The mapping with the ErrInvalidParameter arm left out, so that it falls
\* into the wildcard arm.
get_resp_command_const_missing_arm(self) ==
    CASE self.variant = "OkNoData" -> VIRTIO_GPU_RESP_OK_NODATA
      [] self.variant = "OkDisplayInfo" -> VIRTIO_GPU_RESP_OK_DISPLAY_INFO
      [] self.variant = "OkCapsetInfo" -> VIRTIO_GPU_RESP_OK_CAPSET_INFO
      [] self.variant = "OkCapset" -> VIRTIO_GPU_RESP_OK_CAPSET
      [] self.variant = "OkResourceUuid" -> VIRTIO_GPU_RESP_OK_RESOURCE_UUID
      [] self.variant = "ErrUnspec" -> VIRTIO_GPU_RESP_ERR_UNSPEC
      [] self.variant = "ErrOutOfMemory" -> VIRTIO_GPU_RESP_ERR_OUT_OF_MEMORY
      [] self.variant = "ErrInvalidScanoutId" -> VIRTIO_GPU_RESP_ERR_INVALID_SCANOUT_ID
      [] self.variant = "ErrInvalidResourceId" -> VIRTIO_GPU_RESP_ERR_INVALID_RESOURCE_ID
      [] self.variant = "ErrInvalidContextId" -> VIRTIO_GPU_RESP_ERR_INVALID_CONTEXT_ID
      [] OTHER -> VIRTIO_GPU_RESP_ERR_UNSPEC

\* The mapping whose wildcard arm answers out-of-memory.
get_resp_command_const_wildcard_oom(self) ==
    CASE self.variant = "OkNoData" -> VIRTIO_GPU_RESP_OK_NODATA
      [] self.variant = "OkDisplayInfo" -> VIRTIO_GPU_RESP_OK_DISPLAY_INFO
      [] self.variant = "OkCapsetInfo" -> VIRTIO_GPU_RESP_OK_CAPSET_INFO
      [] self.variant = "OkCapset" -> VIRTIO_GPU_RESP_OK_CAPSET
      [] self.variant = "OkResourceUuid" -> VIRTIO_GPU_RESP_OK_RESOURCE_UUID
      [] self.variant = "ErrUnspec" -> VIRTIO_GPU_RESP_ERR_UNSPEC
      [] self.variant = "ErrOutOfMemory" -> VIRTIO_GPU_RESP_ERR_OUT_OF_MEMORY
      [] self.variant = "ErrInvalidScanoutId" -> VIRTIO_GPU_RESP_ERR_INVALID_SCANOUT_ID
      [] self.variant = "ErrInvalidResourceId" -> VIRTIO_GPU_RESP_ERR_INVALID_RESOURCE_ID
      [] self.variant = "ErrInvalidContextId" -> VIRTIO_GPU_RESP_ERR_INVALID_CONTEXT_ID
      [] self.variant = "ErrInvalidParameter" -> VIRTIO_GPU_RESP_ERR_INVALID_PARAMETER
      [] OTHER -> VIRTIO_GPU_RESP_ERR_OUT_OF_MEMORY

get_resp_command_const(self) ==
    CASE self.variant = "OkNoData" -> VIRTIO_GPU_RESP_OK_NODATA
      [] self.variant = "OkDisplayInfo" -> VIRTIO_GPU_RESP_OK_DISPLAY_INFO
      [] self.variant = "OkCapsetInfo" -> VIRTIO_GPU_RESP_OK_CAPSET_INFO
      [] self.variant = "OkCapset" -> VIRTIO_GPU_RESP_OK_CAPSET
      [] self.variant = "OkResourceUuid" -> VIRTIO_GPU_RESP_OK_RESOURCE_UUID
      [] self.variant = "ErrUnspec" -> VIRTIO_GPU_RESP_ERR_UNSPEC
      [] self.variant = "ErrOutOfMemory" -> VIRTIO_GPU_RESP_ERR_OUT_OF_MEMORY
      [] self.variant = "ErrInvalidScanoutId" -> VIRTIO_GPU_RESP_ERR_INVALID_SCANOUT_ID
      [] self.variant = "ErrInvalidResourceId" -> VIRTIO_GPU_RESP_ERR_INVALID_RESOURCE_ID
      [] self.variant = "ErrInvalidContextId" -> VIRTIO_GPU_RESP_ERR_INVALID_CONTEXT_ID
      [] self.variant = "ErrInvalidParameter" -> VIRTIO_GPU_RESP_ERR_INVALID_PARAMETER
      [] OTHER -> VIRTIO_GPU_RESP_ERR_UNSPEC

\* The arm with the length check off by one: 17 entries get through and
\* the 17th is silently dropped by the zip.
encode_display_info_off_by_one(hdr, inner) ==
    LET pmode(i) ==
            IF i <= Len(inner)
            THEN virtio_gpu_display_one(0, 0, inner[i][1], inner[i][2], 1, 0)
            ELSE virtio_gpu_display_one(0, 0, 0, 0, 0, 0)
    IN  IF Len(inner) > VIRTIO_GPU_MAX_SCANOUTS + 1
        THEN [result |-> "Err", variant |-> "TooManyScanout",
              data |-> <<Len(inner)>>, bytes |-> <<>>]
        ELSE [result |-> "Ok", variant |-> "bytes", data |-> <<>>,
              bytes |-> hdr \o concat([i \in 1..VIRTIO_GPU_MAX_SCANOUTS |-> pmode(i)])]

\* The arm emitting only the records of the active displays, with no
\* zero-filled tail.
encode_display_info_packed(hdr, inner) ==
    IF Len(inner) > VIRTIO_GPU_MAX_SCANOUTS
    THEN [result |-> "Err", variant |-> "TooManyScanout",
          data |-> <<Len(inner)>>, bytes |-> <<>>]
    ELSE [result |-> "Ok", variant |-> "bytes", data |-> <<>>,
          bytes |-> hdr \o concat([i \in 1..Len(inner) |->
                        virtio_gpu_display_one(0, 0, inner[i][1], inner[i][2], 1, 0)])]

\* The OkDisplayInfo arm of encode: the length check, then the 16 pmodes,
\* the first of them zipped with the entries.
encode_display_info(hdr, inner) ==
    LET pmode(i) ==
            IF i <= Len(inner)
            THEN virtio_gpu_display_one(0, 0, inner[i][1], inner[i][2], 1, 0)
            ELSE virtio_gpu_display_one(0, 0, 0, 0, 0, 0)
    IN  IF Len(inner) > VIRTIO_GPU_MAX_SCANOUTS
        THEN [result |-> "Err", variant |-> "TooManyScanout",
              data |-> <<Len(inner)>>, bytes |-> <<>>]
        ELSE [result |-> "Ok", variant |-> "bytes", data |-> <<>>,
              bytes |-> hdr \o concat([i \in 1..VIRTIO_GPU_MAX_SCANOUTS |-> pmode(i)])]

\* encode with the capset blob preceded by its length as a u32.
encode_capset_length_prefixed(self, flags, fence_id, ctx_id) ==
    LET hdr == virtio_gpu_ctrl_hdr(get_resp_command_const(self), flags, fence_id, ctx_id, 0)
        bytes(b) == [result |-> "Ok", variant |-> "bytes", data |-> <<>>, bytes |-> b]
    IN  CASE self.variant = "OkDisplayInfo" -> encode_display_info(hdr, self.data)
          [] self.variant = "OkCapsetInfo" ->
                bytes(hdr \o Le32(self.data[1]) \o Le32(self.data[2])
                          \o Le32(self.data[3]) \o Le32(0))
          [] self.variant = "OkCapset" -> bytes(hdr \o Le32(Len(self.data)) \o self.data)
          [] self.variant = "OkResourceUuid" -> bytes(hdr \o self.data)
          [] OTHER -> bytes(hdr)

\* encode with the capset-info payload ending at capset_max_size, without
\* the padding word.
encode_capset_info_unpadded(self, flags, fence_id, ctx_id) ==
    LET hdr == virtio_gpu_ctrl_hdr(get_resp_command_const(self), flags, fence_id, ctx_id, 0)
        bytes(b) == [result |-> "Ok", variant |-> "bytes", data |-> <<>>, bytes |-> b]
    IN  CASE self.variant = "OkDisplayInfo" -> encode_display_info(hdr, self.data)
          [] self.variant = "OkCapsetInfo" ->
                bytes(hdr \o Le32(self.data[1]) \o Le32(self.data[2])
                          \o Le32(self.data[3]))
          [] self.variant = "OkCapset" -> bytes(hdr \o self.data)
          [] self.variant = "OkResourceUuid" -> bytes(hdr \o self.data)
          [] OTHER -> bytes(hdr)

encode(self, flags, fence_id, ctx_id) ==
    LET hdr == virtio_gpu_ctrl_hdr(get_resp_command_const(self), flags, fence_id, ctx_id, 0)
        bytes(b) == [result |-> "Ok", variant |-> "bytes", data |-> <<>>, bytes |-> b]
    IN  CASE self.variant = "OkDisplayInfo" -> encode_display_info(hdr, self.data)
          [] self.variant = "OkCapsetInfo" ->
                bytes(hdr \o Le32(self.data[1]) \o Le32(self.data[2])
                          \o Le32(self.data[3]) \o Le32(0))
          [] self.variant = "OkCapset" -> bytes(hdr \o self.data)
          [] self.variant = "OkResourceUuid" -> bytes(hdr \o self.data)
          [] OTHER -> bytes(hdr)

(***************************************************************************)
(* The wire codec: bytes in guest memory to commands.                       *)
(***************************************************************************)
VIRTIO_GPU_CMD_GET_DISPLAY_INFO == 256
VIRTIO_GPU_CMD_RESOURCE_CREATE_2D == 257
VIRTIO_GPU_CMD_RESOURCE_UNREF == 258
VIRTIO_GPU_CMD_SET_SCANOUT == 259
VIRTIO_GPU_CMD_RESOURCE_FLUSH == 260
VIRTIO_GPU_CMD_TRANSFER_TO_HOST_2D == 261
VIRTIO_GPU_CMD_RESOURCE_ATTACH_BACKING == 262
VIRTIO_GPU_CMD_RESOURCE_DETACH_BACKING == 263
VIRTIO_GPU_CMD_GET_CAPSET_INFO == 264
VIRTIO_GPU_CMD_GET_CAPSET == 265
VIRTIO_GPU_CMD_GET_EDID == 266
VIRTIO_GPU_CMD_CTX_CREATE == 512
VIRTIO_GPU_CMD_CTX_DESTROY == 513
VIRTIO_GPU_CMD_CTX_ATTACH_RESOURCE == 514
VIRTIO_GPU_CMD_CTX_DETACH_RESOURCE == 515
VIRTIO_GPU_CMD_RESOURCE_CREATE_3D == 516
VIRTIO_GPU_CMD_TRANSFER_TO_HOST_3D == 517
VIRTIO_GPU_CMD_TRANSFER_FROM_HOST_3D == 518
VIRTIO_GPU_CMD_SUBMIT_3D == 519
VIRTIO_GPU_CMD_UPDATE_CURSOR == 769
VIRTIO_GPU_CMD_MOVE_CURSOR == 770

\* The field types of the records: Le32, Le64 and [u8; n].  Le64 wraps a
\* u64 and has its alignment, 8 on the 64-bit targets the device builds for.
align_of_Le64 == 8
le32(name) == [name |-> name, size |-> 4, align |-> 4, kind |-> "le"]
le64(name) == [name |-> name, size |-> 8, align |-> align_of_Le64, kind |-> "le"]
u8_array(name, n) == [name |-> name, size |-> n, align |-> 1, kind |-> "bytes"]

\* The fields of virtio_gpu_ctrl_hdr as the first member of a record.
hdr_fields ==
    <<le32("hdr.type_"), le32("hdr.flags"), le64("hdr.fence_id"),
      le32("hdr.ctx_id"), le32("hdr.padding")>>
virtio_gpu_rect_fields ==
    <<le32("r.x"), le32("r.y"), le32("r.width"), le32("r.height")>>
virtio_gpu_cursor_pos_fields ==
    <<le32("pos.scanout_id"), le32("pos.x"), le32("pos.y"), le32("pos.padding")>>
virtio_gpu_box_fields ==
    <<le32("box_.x"), le32("box_.y"), le32("box_.z"),
      le32("box_.w"), le32("box_.h"), le32("box_.d")>>

\* The #[repr(C)] records of the commands, nested records flattened.
Layout(T) ==
    CASE T = "virtio_gpu_ctrl_hdr" ->
            <<le32("type_"), le32("flags"), le64("fence_id"),
              le32("ctx_id"), le32("padding")>>
      [] T = "virtio_gpu_update_cursor" ->
            hdr_fields \o virtio_gpu_cursor_pos_fields
                \o <<le32("resource_id"), le32("hot_x"), le32("padding")>>
      [] T = "virtio_gpu_resource_unref" ->
            hdr_fields \o <<le32("resource_id"), le32("padding")>>
      [] T = "virtio_gpu_resource_create_2d" ->
            hdr_fields \o <<le32("resource_id"), le32("format"),
                            le32("width"), le32("height")>>
      [] T = "virtio_gpu_set_scanout" ->
            hdr_fields \o virtio_gpu_rect_fields
                \o <<le32("scanout_id"), le32("resource_id")>>
      [] T = "virtio_gpu_resource_flush" ->
            hdr_fields \o virtio_gpu_rect_fields
                \o <<le32("resource_id"), le32("padding")>>
      [] T = "virtio_gpu_transfer_to_host_2d" ->
            hdr_fields \o virtio_gpu_rect_fields
                \o <<le64("offset"), le32("resource_id"), le32("padding")>>
      [] T = "virtio_gpu_resource_attach_backing" ->
            hdr_fields \o <<le32("resource_id"), le32("nr_entries")>>
      [] T = "virtio_gpu_resource_detach_backing" ->
            hdr_fields \o <<le32("resource_id"), le32("padding")>>
      [] T = "virtio_gpu_transfer_host_3d" ->
            hdr_fields \o virtio_gpu_box_fields
                \o <<le64("offset"), le32("resource_id"), le32("level"),
                     le32("stride"), le32("layer_stride")>>
      [] T = "virtio_gpu_resource_create_3d" ->
            hdr_fields \o <<le32("resource_id"), le32("target"), le32("format"),
                            le32("bind"), le32("width"), le32("height"),
                            le32("depth"), le32("array_size"), le32("last_level"),
                            le32("nr_samples"), le32("flags"), le32("padding")>>
      [] T = "virtio_gpu_ctx_create" ->
            hdr_fields \o <<le32("nlen"), le32("padding"), u8_array("debug_name", 64)>>
      [] T = "virtio_gpu_ctx_destroy" -> hdr_fields
      [] T = "virtio_gpu_ctx_resource" ->
            hdr_fields \o <<le32("resource_id"), le32("padding")>>
      [] T = "virtio_gpu_cmd_submit" ->
            hdr_fields \o <<le32("size"), le32("padding")>>
      [] T = "virtio_gpu_get_capset_info" ->
            hdr_fields \o <<le32("capset_index"), le32("padding")>>
      [] T = "virtio_gpu_get_capset" ->
            hdr_fields \o <<le32("capset_id"), le32("capset_version")>>
      [] T = "virtio_gpu_cmd_get_edid" ->
            hdr_fields \o <<le32("scanout"), le32("padding")>>
      [] T = "virtio_gpu_display_one" ->
            virtio_gpu_rect_fields \o <<le32("enabled"), le32("flags")>>

\* The layout rules of #[repr(C)]: each field at the next multiple of its
\* alignment, the size rounded up to the largest alignment.
round_up(n, a) == ((n + a - 1) \div a) * a

RECURSIVE offset_of(_, _)
offset_of(fields, i) ==
    IF i = 1 THEN 0
    ELSE round_up(offset_of(fields, i - 1) + fields[i - 1].size, fields[i].align)

RECURSIVE max_align(_)
max_align(fields) ==
    IF fields = <<>> THEN 1
    ELSE LET rest == max_align(Tail(fields))
         IN  IF Head(fields).align > rest THEN Head(fields).align ELSE rest

size_of(T) ==
    LET fields == Layout(T)
        n == Len(fields)
    IN  round_up(offset_of(fields, n) + fields[n].size, max_align(fields))

\* Le32::to_native, Le64::to_native: the number little-endian bytes spell.
RECURSIVE from_le_bytes(_)
from_le_bytes(b) == IF b = <<>> THEN 0 ELSE Head(b) + 256 * from_le_bytes(Tail(b))

\* GuestMemoryMmap::read_obj::<T>(addr): all size_of::<T>() bytes at addr,
\* copied into a T, or an error when one of them is not mapped.
read_obj(mem, addr, T) ==
    LET fields == Layout(T)
        at == addr - mem.start
        field(i) ==
            LET b == SubSeq(mem.bytes, at + offset_of(fields, i) + 1,
                            at + offset_of(fields, i) + fields[i].size)
            IN  IF fields[i].kind = "le" THEN from_le_bytes(b) ELSE b
    IN  IF at < 0 \/ at + size_of(T) > Len(mem.bytes)
        THEN [result |-> "Err", variant |-> "ParserError", data |-> <<>>]
        ELSE [result |-> "Ok", variant |-> T,
              data |-> [i \in 1..Len(fields) |-> field(i)]]

\* The arms of the match in decode: the record type and the variant of
\* each opcode.
CommandOf(type_) ==
    CASE type_ = VIRTIO_GPU_CMD_GET_DISPLAY_INFO ->
            <<"CmdGetDisplayInfo", "virtio_gpu_ctrl_hdr">>
      [] type_ = VIRTIO_GPU_CMD_RESOURCE_CREATE_2D ->
            <<"CmdResourceCreate2D", "virtio_gpu_resource_create_2d">>
      [] type_ = VIRTIO_GPU_CMD_RESOURCE_UNREF ->
            <<"CmdResourceUnref", "virtio_gpu_resource_unref">>
      [] type_ = VIRTIO_GPU_CMD_TRANSFER_TO_HOST_2D ->
            <<"CmdTransferToHost2D", "virtio_gpu_transfer_to_host_2d">>
      [] type_ = VIRTIO_GPU_CMD_SET_SCANOUT ->
            <<"CmdSetScanout", "virtio_gpu_set_scanout">>
      [] type_ = VIRTIO_GPU_CMD_RESOURCE_FLUSH ->
            <<"CmdResourceFlush", "virtio_gpu_resource_flush">>
      [] type_ = VIRTIO_GPU_CMD_RESOURCE_ATTACH_BACKING ->
            <<"CmdResourceAttachBacking", "virtio_gpu_resource_attach_backing">>
      [] type_ = VIRTIO_GPU_CMD_RESOURCE_DETACH_BACKING ->
            <<"CmdResourceDetachBacking", "virtio_gpu_resource_detach_backing">>
      [] type_ = VIRTIO_GPU_CMD_GET_CAPSET_INFO ->
            <<"CmdGetCapsetInfo", "virtio_gpu_get_capset_info">>
      [] type_ = VIRTIO_GPU_CMD_GET_CAPSET ->
            <<"CmdGetCapset", "virtio_gpu_get_capset">>
      [] type_ = VIRTIO_GPU_CMD_GET_EDID ->
            <<"CmdGetEdid", "virtio_gpu_cmd_get_edid">>
      [] type_ = VIRTIO_GPU_CMD_CTX_CREATE ->
            <<"CmdCtxCreate", "virtio_gpu_ctx_create">>
      [] type_ = VIRTIO_GPU_CMD_CTX_DESTROY ->
            <<"CmdCtxDestroy", "virtio_gpu_ctx_destroy">>
      [] type_ = VIRTIO_GPU_CMD_CTX_ATTACH_RESOURCE ->
            <<"CmdCtxAttachResource", "virtio_gpu_ctx_resource">>
      [] type_ = VIRTIO_GPU_CMD_CTX_DETACH_RESOURCE ->
            <<"CmdCtxDetachResource", "virtio_gpu_ctx_resource">>
      [] type_ = VIRTIO_GPU_CMD_RESOURCE_CREATE_3D ->
            <<"CmdResourceCreate3D", "virtio_gpu_resource_create_3d">>
      [] type_ = VIRTIO_GPU_CMD_TRANSFER_TO_HOST_3D ->
            <<"CmdTransferToHost3D", "virtio_gpu_transfer_host_3d">>
      [] type_ = VIRTIO_GPU_CMD_TRANSFER_FROM_HOST_3D ->
            <<"CmdTransferFromHost3D", "virtio_gpu_transfer_host_3d">>
      [] type_ = VIRTIO_GPU_CMD_SUBMIT_3D ->
            <<"CmdSubmit3D", "virtio_gpu_cmd_submit">>
      [] type_ = VIRTIO_GPU_CMD_UPDATE_CURSOR ->
            <<"CmdUpdateCursor", "virtio_gpu_update_cursor">>
      [] type_ = VIRTIO_GPU_CMD_MOVE_CURSOR ->
            <<"CmdMoveCursor", "virtio_gpu_update_cursor">>
      [] OTHER -> <<>>

\* decode reading the largest record before it looks at the type.
decode_body_first(cmd, addr) ==
    LET body == read_obj(cmd, addr, "virtio_gpu_ctx_create")
        hdr == read_obj(cmd, addr, "virtio_gpu_ctrl_hdr")
    IN  IF body.result = "Err" THEN body
        ELSE LET arm == CommandOf(hdr.data[1])
             IN  IF arm = <<>>
                 THEN [result |-> "Err", variant |-> "InvalidCommand",
                       data |-> <<hdr.data[1]>>]
                 ELSE LET obj == read_obj(cmd, addr, arm[2])
                      IN  [result |-> "Ok", variant |-> arm[1],
                           struct |-> arm[2], data |-> obj.data]

\* decode that answers with the header alone when the record of the opcode
\* cannot be read.
decode_header_only(cmd, addr) ==
    LET hdr == read_obj(cmd, addr, "virtio_gpu_ctrl_hdr")
    IN  IF hdr.result = "Err" THEN hdr
        ELSE LET arm == CommandOf(hdr.data[1])
             IN  IF arm = <<>>
                 THEN [result |-> "Err", variant |-> "InvalidCommand",
                       data |-> <<hdr.data[1]>>]
                 ELSE LET obj == read_obj(cmd, addr, arm[2])
                      IN  IF obj.result = "Err"
                          THEN [result |-> "Ok", variant |-> arm[1],
                                struct |-> arm[2], data |-> hdr.data]
                          ELSE [result |-> "Ok", variant |-> arm[1],
                                struct |-> arm[2], data |-> obj.data]

\* VirtioGpuCommand::decode: the header is read first, the record of the
\* matched opcode is then read from the same address.
decode(cmd, addr) ==
    LET hdr == read_obj(cmd, addr, "virtio_gpu_ctrl_hdr")
    IN  IF hdr.result = "Err" THEN hdr
        ELSE LET arm == CommandOf(hdr.data[1])
             IN  IF arm = <<>>
                 THEN [result |-> "Err", variant |-> "InvalidCommand",
                       data |-> <<hdr.data[1]>>]
                 ELSE LET obj == read_obj(cmd, addr, arm[2])
                      IN  IF obj.result = "Err" THEN obj
                          ELSE [result |-> "Ok", variant |-> arm[1],
                                struct |-> arm[2], data |-> obj.data]

\* The arms of the match in size(): the record type whose size_of each
\* variant answers with.
SizeArm(variant) ==
    CASE variant = "CmdGetDisplayInfo" -> "virtio_gpu_display_one"
      [] variant = "CmdResourceCreate2D" -> "virtio_gpu_resource_create_2d"
      [] variant = "CmdResourceUnref" -> "virtio_gpu_resource_unref"
      [] variant = "CmdSetScanout" -> "virtio_gpu_set_scanout"
      [] variant = "CmdResourceFlush" -> "virtio_gpu_resource_flush"
      [] variant = "CmdTransferToHost2D" -> "virtio_gpu_transfer_to_host_2d"
      [] variant = "CmdResourceAttachBacking" -> "virtio_gpu_resource_attach_backing"
      [] variant = "CmdResourceDetachBacking" -> "virtio_gpu_resource_detach_backing"
      [] variant = "CmdGetCapsetInfo" -> "virtio_gpu_get_capset_info"
      [] variant = "CmdGetCapset" -> "virtio_gpu_get_capset"
      [] variant = "CmdGetEdid" -> "virtio_gpu_cmd_get_edid"
      [] variant = "CmdCtxCreate" -> "virtio_gpu_ctx_create"
      [] variant = "CmdCtxDestroy" -> "virtio_gpu_ctx_destroy"
      [] variant = "CmdCtxAttachResource" -> "virtio_gpu_ctx_resource"
      [] variant = "CmdCtxDetachResource" -> "virtio_gpu_ctx_resource"
      [] variant = "CmdResourceCreate3D" -> "virtio_gpu_resource_create_3d"
      [] variant = "CmdTransferToHost3D" -> "virtio_gpu_transfer_host_3d"
      [] variant = "CmdTransferFromHost3D" -> "virtio_gpu_transfer_host_3d"
      [] variant = "CmdSubmit3D" -> "virtio_gpu_cmd_submit"
      [] variant = "CmdUpdateCursor" -> "virtio_gpu_update_cursor"
      [] variant = "CmdMoveCursor" -> "virtio_gpu_update_cursor"

\* The sizes of the fields of a record, added up.
RECURSIVE sum_of_sizes(_)
sum_of_sizes(fields) ==
    IF fields = <<>> THEN 0 ELSE Head(fields).size + sum_of_sizes(Tail(fields))

\* size() answering with the fields' sizes added up, padding left out.
VirtioGpuCommand_size_packed(c) == sum_of_sizes(Layout(SizeArm(c.variant)))

\* VirtioGpuCommand::size
VirtioGpuCommand_size(c) == size_of(SizeArm(c.variant))

\* The bytes of the fields of a record, each at its offset; the bytes that
\* belong to no field are taken from `padding`.
as_slice(T, data, padding) ==
    LET fields == Layout(T)
        owner(k) == {i \in 1..Len(fields) :
                        /\ offset_of(fields, i) < k
                        /\ k <= offset_of(fields, i) + fields[i].size}
        byte(k) ==
            IF owner(k) = {} THEN padding[k]
            ELSE LET i == CHOOSE j \in owner(k) : TRUE
                     rel == k - offset_of(fields, i)
                 IN  IF fields[i].kind = "le"
                     THEN le_bytes(data[i], fields[i].size)[rel]
                     ELSE data[i][rel]
    IN  [k \in 1..size_of(T) |-> byte(k)]

(***************************************************************************)
(* The commands the guest can send and the outcomes the adapters can give.  *)
(***************************************************************************)
VIRTIO_GPU_FORMAT_B8G8R8A8_UNORM == 1

\* Every field of a command gets a value of its own, so that a handler that
\* forwards the wrong field shows.
Hdrs == [ctx_id : CtxIds]
ResourceCreate2DCmds ==
    {[resource_id |-> id, format |-> VIRTIO_GPU_FORMAT_B8G8R8A8_UNORM,
      width |-> w, height |-> w + 1] : id \in ResourceIds, w \in Dims}
ResourceCreate3DCmds ==
    {[resource_id |-> id, target |-> t.target,
      format |-> VIRTIO_GPU_FORMAT_B8G8R8A8_UNORM, bind |-> t.bind,
      width |-> w, height |-> w + 1, depth |-> t.depth,
      array_size |-> t.array_size, last_level |-> t.last_level,
      nr_samples |-> t.nr_samples, flags |-> t.flags] :
        id \in ResourceIds, w \in Dims,
        t \in {[target |-> RUTABAGA_PIPE_TEXTURE_2D,
                bind |-> RUTABAGA_PIPE_BIND_RENDER_TARGET,
                depth |-> 1, array_size |-> 1, last_level |-> 0,
                nr_samples |-> 0, flags |-> 0],
               [target |-> 3, bind |-> 8, depth |-> 2, array_size |-> 4,
                last_level |-> 5, nr_samples |-> 6, flags |-> 1]}}
ResourceCmds == [resource_id : ResourceIds]
CtxResourceCmds == [hdr : Hdrs, resource_id : ResourceIds]
CtxCmds == [hdr : Hdrs]
SetScanoutCmds == [scanout_id : ScanoutIds, resource_id : ResourceIds]
TransferToHost2DCmds ==
    [hdr : Hdrs, r : {[x |-> 1, y |-> 2, width |-> 3, height |-> 4]},
     offset : {8}, resource_id : ResourceIds]
TransferHost3DCmds ==
    [hdr : Hdrs,
     box_ : {[x |-> 1, y |-> 2, z |-> 3, w |-> 4, h |-> 5, d |-> 6]},
     offset : {10}, resource_id : ResourceIds,
     level : {7}, stride : {8}, layer_stride : {9}]
CursorPositions == {[x |-> p, y |-> p + 1] : p \in 1..MaxPos}
UpdateCursorCmds == [pos : CursorPositions, resource_id : ResourceIds]
MoveCursorCmds == [pos : CursorPositions]
CapsetInfoCmds == [capset_index : {0}]
CapsetCmds == [capset_id : {1}, capset_version : {2}]
SubmitCmds == [hdr : Hdrs, size : {1}]

\* The outcomes of the adapter calls of one command; an outcome that no call
\* reads is left out.
Outcome == [ok : BOOLEAN]
CreateEnvs ==
    {[create_ok |-> FALSE, query_ok |-> FALSE],
     [create_ok |-> TRUE, query_ok |-> FALSE],
     [create_ok |-> TRUE, query_ok |-> TRUE]}
UnrefEnvs == [unref_ok : BOOLEAN]
NoPresent == [in_use |-> TRUE, fb_ok |-> TRUE, transfer_ok |-> TRUE]
PresentEnvs ==
    {NoPresent,
     [in_use |-> FALSE, fb_ok |-> FALSE, transfer_ok |-> TRUE],
     [in_use |-> FALSE, fb_ok |-> TRUE, transfer_ok |-> FALSE],
     [in_use |-> FALSE, fb_ok |-> TRUE, transfer_ok |-> TRUE]}
FlushEnvs(self, cmd) ==
    [scanout : IF self.scanout_resource_id = Some(cmd.resource_id)
               THEN PresentEnvs ELSE {NoPresent},
     cursor : IF self.cursor_resource_id = Some(cmd.resource_id)
              THEN PresentEnvs ELSE {NoPresent}]
NoCursorEnv == [create_ok |-> TRUE, fb_ok |-> TRUE, transfer_ok |-> TRUE]
CursorEnvs(self, cmd) ==
    IF contains_key(self.resources, cmd.resource_id) /\ cmd.resource_id # 0
    THEN {NoCursorEnv,
          [create_ok |-> FALSE, fb_ok |-> TRUE, transfer_ok |-> TRUE],
          [create_ok |-> TRUE, fb_ok |-> FALSE, transfer_ok |-> TRUE],
          [create_ok |-> TRUE, fb_ok |-> TRUE, transfer_ok |-> FALSE]}
    ELSE {NoCursorEnv}

\* Spans (addr, len) against the one region of GuestMem: all of it, its
\* tail, one running past its end, one before it, an empty one at its end.
Spans == {<<1, 2>>, <<2, 1>>, <<2, 2>>, <<0, 1>>, <<3, 0>>}
\* The span lists: up to MaxSpans spans, in ascending order of address and
\* then of length (the translation treats each span on its own).
span_le(a, b) == a[1] < b[1] \/ (a[1] = b[1] /\ a[2] <= b[2])
Sglists ==
    {v \in UNION {[1..n -> Spans] : n \in 0..MaxSpans} :
        \A i \in 1..(Len(v) - 1) : span_le(v[i], v[i + 1])}

(***************************************************************************)
(* create(id) on an id that is not live, unref(id), unref(id),              *)
(* set-scanout(id), as consecutive commands: lifecycle.stage counts how     *)
(* many of them the last commands were, and lifecycle.coop says whether     *)
(* the renderer created the resource, failed the query that follows and     *)
(* released it at the first unref.  A sequence is followed no further once  *)
(* it is complete or the renderer did otherwise.  Untracked: no history is  *)
(* kept.                                                                    *)
(***************************************************************************)
NoLifecycle == [id |-> 0, stage |-> 0, coop |-> TRUE]
Untracked == [id |-> 0, stage |-> 0, coop |-> FALSE]

lifecycle_next(lc, op, cmd, self, r) ==
    IF lc = Untracked
    THEN Untracked
    ELSE IF /\ op \in {"cmd_resource_create_2d", "cmd_resource_create_3d"}
       /\ ~contains_key(self.resources, cmd.resource_id)
    THEN [id |-> cmd.resource_id, stage |-> 1,
          coop |-> Len(r.calls) = 2 /\ r.calls[1].ok /\ ~r.calls[2].ok]
    ELSE IF op = "cmd_resource_unref" /\ lc.stage = 1 /\ cmd.resource_id = lc.id
    THEN [lc EXCEPT !.stage = 2, !.coop = @ /\ r.calls[1].ok]
    ELSE IF op = "cmd_resource_unref" /\ lc.stage = 2 /\ cmd.resource_id = lc.id
    THEN [lc EXCEPT !.stage = 3]
    ELSE IF op = "cmd_set_scanout" /\ lc.stage = 3 /\ cmd.resource_id = lc.id
    THEN [lc EXCEPT !.stage = 4]
    ELSE NoLifecycle

NoResponse == [result |-> "None", variant |-> "none", data |-> <<>>]

(***************************************************************************)
(* The callers: one draining the control queue, one the cursor queue.       *)
(***************************************************************************)
Queues == {"control", "cursor"}
NoFrame == [op |-> "idle", cmd |-> <<>>, env |-> <<>>, pc |-> "idle",
            tmp |-> <<>>, resp |-> NoResponse]

(***************************************************************************)
(* One command: the handler's result becomes the state.                     *)
(***************************************************************************)
Idle == [op |-> "idle", cmd |-> <<>>]

Apply(op, cmd, r) ==
    /\ last_cmd = Idle
    /\ r.self.display.next_id <= MaxSurfaces + 1
    /\ resources' = r.self.resources
    /\ scanout_resource_id' = r.self.scanout_resource_id
    /\ scanout_surface_id' = r.self.scanout_surface_id
    /\ cursor_resource_id' = r.self.cursor_resource_id
    /\ cursor_surface_id' = r.self.cursor_surface_id
    /\ rutabaga' = r.self.rutabaga
    /\ display' = r.self.display
    /\ last_cmd' = [op |-> op, cmd |-> cmd]
    /\ resp' = r.resp
    /\ calls' = r.calls
    /\ lifecycle' = lifecycle_next(lifecycle, op, cmd, Self, r)
    /\ UNCHANGED <<codecvars, lockvars>>

CmdGetDisplayInfo ==
    \E cmd \in Hdrs :
        Apply("cmd_get_display_info", cmd, cmd_get_display_info(Self, cmd))

CmdResourceCreate2D ==
    \E cmd \in ResourceCreate2DCmds, env \in CreateEnvs :
        Apply("cmd_resource_create_2d", cmd, cmd_resource_create_2d(Self, cmd, env))

CmdResourceCreate3D ==
    \E cmd \in ResourceCreate3DCmds, env \in CreateEnvs :
        Apply("cmd_resource_create_3d", cmd, cmd_resource_create_3d(Self, cmd, env))

CmdResourceUnref ==
    \E cmd \in ResourceCmds, env \in UnrefEnvs :
        Apply("cmd_resource_unref", cmd, cmd_resource_unref(Self, cmd, env))

CmdSetScanout ==
    \E cmd \in SetScanoutCmds :
        Apply("cmd_set_scanout", cmd, cmd_set_scanout(Self, cmd))

CmdResourceFlush ==
    \E cmd \in ResourceCmds : \E env \in FlushEnvs(Self, cmd) :
        Apply("cmd_flush_resource", cmd, cmd_flush_resource(Self, cmd, env))

CmdTransferToHost2D ==
    \E cmd \in TransferToHost2DCmds, env \in Outcome :
        Apply("cmd_transfer_to_host_2d", cmd, cmd_transfer_to_host_2d(Self, cmd, env))

\* The caller translates the span list, then hands the iovecs to the handler.
CmdResourceAttachBacking ==
    \E cmd \in ResourceCmds, vecs \in Sglists :
        LET t == sglist_to_rutabaga_iovecs(vecs, GuestMem)
        IN  \E env \in IF t.resp.result = "Ok" THEN Outcome ELSE {[ok |-> TRUE]} :
            Apply("cmd_resource_attach_backing",
                  [resource_id |-> cmd.resource_id, vecs |-> vecs],
                  IF t.resp.result = "Ok"
                  THEN cmd_resource_attach_backing(Self, cmd, t.iovecs, env)
                  ELSE Return(Self, t.resp, <<>>))

CmdResourceDetachBacking ==
    \E cmd \in ResourceCmds, env \in Outcome :
        Apply("cmd_resource_detach_backing", cmd,
              cmd_resource_detach_backing(Self, cmd, env))

CmdGetCapsetInfo ==
    \E cmd \in CapsetInfoCmds, ok \in BOOLEAN :
        Apply("cmd_get_capset_info", cmd,
              cmd_get_capset_info(Self, cmd, [ok |-> ok, info |-> <<1, 2, 3>>]))

CmdGetCapset ==
    \E cmd \in CapsetCmds, ok \in BOOLEAN :
        Apply("cmd_get_capset", cmd,
              cmd_get_capset(Self, cmd, [ok |-> ok, capset |-> <<0, 1, 2>>]))

CmdGetEdid ==
    \E cmd \in [scanout : {0}] :
        Apply("cmd_get_edid", cmd, cmd_get_edid(Self, cmd))

CmdCtxCreate ==
    \E cmd \in CtxCmds, env \in Outcome :
        Apply("cmd_context_create", cmd, cmd_context_create(Self, cmd, env))

CmdCtxDestroy ==
    \E cmd \in CtxCmds, env \in Outcome :
        Apply("cmd_context_destroy", cmd, cmd_context_destroy(Self, cmd, env))

CmdCtxAttachResource ==
    \E cmd \in CtxResourceCmds, env \in Outcome :
        Apply("cmd_ctx_attach_resource", cmd, cmd_ctx_attach_resource(Self, cmd, env))

CmdCtxDetachResource ==
    \E cmd \in CtxResourceCmds, env \in Outcome :
        Apply("cmd_ctx_detach_resource", cmd, cmd_ctx_detach_resource(Self, cmd, env))

CmdTransferToHost3D ==
    \E cmd \in TransferHost3DCmds, env \in Outcome :
        Apply("cmd_transfer_to_host_3d", cmd, cmd_transfer_to_host_3d(Self, cmd, env))

CmdTransferFromHost3D ==
    \E cmd \in TransferHost3DCmds, env \in Outcome :
        Apply("cmd_transfer_from_host_3d", cmd, cmd_transfer_from_host_3d(Self, cmd, env))

CmdSubmit3D ==
    \E cmd \in SubmitCmds, env \in Outcome :
        Apply("cmd_submit_3d", cmd, cmd_submit_3d(Self, cmd, <<0>>, env))

CmdResourceAssignUuid ==
    \E cmd \in ResourceCmds :
        Apply("cmd_resource_assign_uuid", cmd, cmd_resource_assign_uuid(Self, cmd))

CmdUpdateCursor ==
    \E cmd \in UpdateCursorCmds : \E env \in CursorEnvs(Self, cmd) :
        Apply("cmd_update_cursor", cmd, cmd_update_cursor(Self, cmd, env))

CmdMoveCursor ==
    \E cmd \in MoveCursorCmds :
        Apply("cmd_move_curosr", cmd, cmd_move_curosr(Self, cmd))

CreateFence ==
    \E ctx \in CtxIds, env \in Outcome :
        Apply("create_fence", [ctx_idx |-> ctx],
              create_fence(Self, [flags |-> 1, fence_id |-> 1, ctx_id |-> ctx], env))

FencePoll ==
    \E fences \in {<<1>>} :
        Apply("fence_poll", <<>>, fence_poll(Self, [fences |-> fences]))

ForceCtx0 ==
    Apply("force_ctx_0", <<>>, force_ctx_0(Self))

ProcessDisplay ==
    \E close \in BOOLEAN :
        Apply("process_display", <<>>, process_display(Self, [close |-> close]))

\* The caller takes the response; the device waits for the next command.
TakeResponse ==
    /\ last_cmd # Idle
    /\ last_cmd' = Idle
    /\ resp' = NoResponse
    /\ calls' = <<>>
    /\ lifecycle' = IF lifecycle = Untracked \/ (lifecycle.coop /\ lifecycle.stage < 4)
                     THEN lifecycle ELSE NoLifecycle
    /\ UNCHANGED <<devvars, codecvars, lockvars>>

InitDevice ==
    /\ resources = VirtioGpu_new.resources
    /\ scanout_resource_id = VirtioGpu_new.scanout_resource_id
    /\ scanout_surface_id = VirtioGpu_new.scanout_surface_id
    /\ cursor_resource_id = VirtioGpu_new.cursor_resource_id
    /\ cursor_surface_id = VirtioGpu_new.cursor_surface_id
    /\ rutabaga = VirtioGpu_new.rutabaga
    /\ display = VirtioGpu_new.display
    /\ last_cmd = Idle
    /\ resp = NoResponse
    /\ calls = <<>>
    /\ lock = {}
    /\ inflight = [q \in Queues |-> NoFrame]
    /\ acquired = [q \in Queues |-> VirtioGpu_new]

NotEncoded == [result |-> "None", variant |-> "none", data |-> <<>>, bytes |-> <<>>]
NoEncode == [resp |-> NoResponse, flags |-> 0, fence_id |-> 0, ctx_id |-> 0]
NotDecoded == [result |-> "None", variant |-> "none", data |-> <<>>]
NoDecode == [mem |-> [start |-> 0, bytes |-> <<>>], addr |-> 0]

Init ==
    /\ InitDevice
    /\ lifecycle = Untracked
    /\ enc_in = NoEncode
    /\ enc_out = NotEncoded
    /\ dec_in = NoDecode
    /\ dec_out = NotDecoded
    /\ reenc = <<>>

Next ==
    \/ CmdGetDisplayInfo
    \/ CmdResourceCreate2D
    \/ CmdResourceCreate3D
    \/ CmdResourceUnref
    \/ CmdSetScanout
    \/ CmdResourceFlush
    \/ CmdTransferToHost2D
    \/ CmdResourceAttachBacking
    \/ CmdResourceDetachBacking
    \/ CmdGetCapsetInfo
    \/ CmdGetCapset
    \/ CmdGetEdid
    \/ CmdCtxCreate
    \/ CmdCtxDestroy
    \/ CmdCtxAttachResource
    \/ CmdCtxDetachResource
    \/ CmdTransferToHost3D
    \/ CmdTransferFromHost3D
    \/ CmdSubmit3D
    \/ CmdResourceAssignUuid
    \/ CmdUpdateCursor
    \/ CmdMoveCursor
    \/ CreateFence
    \/ FencePoll
    \/ ForceCtx0
    \/ ProcessDisplay
    \/ TakeResponse

vars == <<devvars, obsvars, codecvars, lockvars>>

Spec == Init /\ [][Next]_vars

(***************************************************************************)
(* The commands that change the device, with the history of create, unref,  *)
(* unref, set-scanout kept.                                                 *)
(***************************************************************************)
InitLifecycle ==
    /\ InitDevice
    /\ lifecycle = NoLifecycle
    /\ enc_in = NoEncode
    /\ enc_out = NotEncoded
    /\ dec_in = NoDecode
    /\ dec_out = NotDecoded
    /\ reenc = <<>>

NextLifecycle ==
    \/ CmdResourceCreate2D
    \/ CmdResourceCreate3D
    \/ CmdResourceUnref
    \/ CmdSetScanout
    \/ CmdUpdateCursor
    \/ TakeResponse

SpecLifecycle == InitLifecycle /\ [][NextLifecycle]_vars

\* The same commands with the history left out.
SpecBindings == Init /\ [][NextLifecycle]_vars

\* The bindings at work: the commands that bind scanout and cursor, and the
\* ones that use the surfaces bound.
NextPresent ==
    \/ CmdResourceCreate2D
    \/ CmdSetScanout
    \/ CmdUpdateCursor
    \/ CmdResourceFlush
    \/ CmdMoveCursor
    \/ ProcessDisplay
    \/ TakeResponse

SpecPresent == Init /\ [][NextPresent]_vars

\* The commands that hand a resource of the table to the renderer, or answer
\* from the table alone.
NextForward ==
    \/ CmdResourceCreate2D
    \/ CmdResourceUnref
    \/ CmdResourceAttachBacking
    \/ CmdTransferToHost2D
    \/ CmdTransferToHost3D
    \/ CmdTransferFromHost3D
    \/ CmdResourceAssignUuid
    \/ TakeResponse

SpecForward == Init /\ [][NextForward]_vars

\* The commands that change the resource table.
NextTable ==
    \/ CmdResourceCreate2D
    \/ CmdResourceCreate3D
    \/ CmdResourceUnref
    \/ TakeResponse

SpecTable == Init /\ [][NextTable]_vars

(***************************************************************************)
(* The handlers statement by statement, as a caller holding the lock runs   *)
(* them: f is the caller's frame [op, cmd, env, pc, tmp, resp], f.pc the    *)
(* statement it is at, f.tmp its local variables.  A step gives the device  *)
(* and the frame after the statement.                                       *)
(***************************************************************************)
Goto(self, f, pc) == [self |-> self, f |-> [f EXCEPT !.pc = pc]]
GotoWith(self, f, pc, tmp) == [self |-> self, f |-> [f EXCEPT !.pc = pc, !.tmp = tmp]]
Done(self, f, r) == [self |-> self, f |-> [f EXCEPT !.pc = "done", !.resp = r]]

resource_create_3d_step(self, f) ==
    LET resource_id == f.cmd.resource_id
        resource == VirtioGpuResource_new(resource_id, f.cmd.width, f.cmd.height, 0)
    IN  CASE f.pc = "start" ->
                IF ~f.env.create_ok
                THEN Done(self, f, Err("RutabagaError"))
                ELSE Goto([self EXCEPT !.rutabaga = @ \cup {resource_id}], f, "insert")
          [] f.pc = "insert" ->
                Goto([self EXCEPT !.resources = insert(@, resource_id, resource)],
                     f, "query")
          [] f.pc = "query" ->
                Done(self, f, IF f.env.query_ok THEN Ok("ErrInvalidResourceId")
                                                ELSE Ok("OkNoData"))

cmd_resource_unref_step(self, f) ==
    LET resource_id == f.cmd.resource_id
    IN  CASE f.pc = "start" ->
                IF ~f.env.unref_ok
                THEN Done(self, f, Err("RutabagaError"))
                ELSE Goto([self EXCEPT !.rutabaga = @ \ {resource_id}], f, "remove")
          [] f.pc = "remove" ->
                IF contains_key(self.resources, resource_id)
                THEN Done([self EXCEPT !.resources = remove(@, resource_id)],
                          f, Ok("OkNoData"))
                ELSE Done(self, f, Err("ErrInvalidResourceId"))

cmd_set_scanout_step(self, f) ==
    LET resource_id == f.cmd.resource_id
    IN  CASE f.pc = "start" ->
                IF resource_id = 0
                THEN Goto([self EXCEPT !.scanout_surface_id = None], f, "clear")
                ELSE IF ~contains_key(self.resources, resource_id)
                THEN Done(self, f, Err("ErrInvalidResourceId"))
                ELSE Goto(self, f, "bind")
          [] f.pc = "clear" ->
                Done([self EXCEPT !.scanout_resource_id = None], f, Ok("OkNoData"))
          [] f.pc = "bind" ->
                Goto([self EXCEPT !.scanout_resource_id = NonZeroU32_new(resource_id)],
                     f, "surface")
          [] f.pc = "surface" ->
                Done([self EXCEPT !.scanout_surface_id =
                                     IF is_none(@) THEN Some(f.cmd.scanout_id) ELSE @],
                     f, Ok("OkNoData"))

cmd_move_curosr_step(self, f) ==
    CASE f.pc = "start" -> Done(self, f, Ok("OkNoData"))

cmd_update_cursor_step(self, f) ==
    LET resource_id == f.cmd.resource_id
    IN  CASE f.pc = "start" ->
                IF resource_id = 0
                THEN IF is_some(self.cursor_surface_id)
                     THEN GotoWith([self EXCEPT !.cursor_surface_id = None], f,
                                   "release", <<unwrap(self.cursor_surface_id)>>)
                     ELSE Goto(self, f, "clear")
                ELSE IF ~contains_key(self.resources, resource_id)
                THEN Done(self, f, Err("ErrInvalidResourceId"))
                ELSE GotoWith(self, f, "bind", dimensions(self.resources[resource_id]))
          [] f.pc = "release" ->
                Goto([self EXCEPT !.display = display_release_surface(@, f.tmp[1])],
                     f, "clear")
          [] f.pc = "clear" ->
                Done([self EXCEPT !.cursor_resource_id = None], f, Ok("OkNoData"))
          [] f.pc = "bind" ->
                Goto([self EXCEPT !.cursor_resource_id = NonZeroU32_new(resource_id)],
                     f, "is_none")
          [] f.pc = "is_none" ->
                IF is_none(self.cursor_surface_id)
                THEN Goto(self, f, "create_surface")
                ELSE Goto(self, f, "present")
          [] f.pc = "create_surface" ->
                IF ~f.env.create_ok
                THEN Done(self, f, Err("DisplayErr"))
                ELSE Goto([self EXCEPT !.cursor_surface_id = Some(self.display.next_id),
                                       !.display = display_create_surface(@)],
                          f, "present")
          [] f.pc = "present" ->
                Done(self, f, update_cursor_present(self, f.cmd, f.tmp, <<>>, f.env).resp)

\* The statement the frame is at, in the handler of its command.
step(self, f) ==
    CASE f.op = "cmd_resource_create_2d" -> resource_create_3d_step(self, f)
      [] f.op = "cmd_resource_unref" -> cmd_resource_unref_step(self, f)
      [] f.op = "cmd_set_scanout" -> cmd_set_scanout_step(self, f)
      [] f.op = "cmd_move_curosr" -> cmd_move_curosr_step(self, f)
      [] f.op = "cmd_update_cursor" -> cmd_update_cursor_step(self, f)

(***************************************************************************)
(* The lock the callers share (a Mutex around the device).                  *)
(***************************************************************************)
try_lock_always(l, q) == TRUE

try_lock(l, q) == l = {}

\* What each queue carries, with the outcomes the adapters will give.
QueueCommands(q, self) ==
    IF q = "control"
    THEN {[op |-> "cmd_resource_create_2d", cmd |-> c, env |-> e] :
              c \in {x \in ResourceCreate2DCmds : x.width = 1 /\ x.resource_id # 0},
              e \in CreateEnvs}
         \cup {[op |-> "cmd_resource_unref", cmd |-> c, env |-> e] :
                  c \in {x \in ResourceCmds : x.resource_id # 0}, e \in UnrefEnvs}
         \cup {[op |-> "cmd_set_scanout", cmd |-> c, env |-> <<>>] :
                  c \in {x \in SetScanoutCmds : x.scanout_id = 0}}
    ELSE UNION {{[op |-> "cmd_update_cursor", cmd |-> c, env |-> e] :
                    e \in CursorEnvs(self, c)} : c \in UpdateCursorCmds}
         \cup {[op |-> "cmd_move_curosr", cmd |-> c, env |-> <<>>] : c \in MoveCursorCmds}

\* A caller takes the lock and starts a command.
Acquire(q) ==
    /\ inflight[q].pc = "idle"
    /\ try_lock(lock, q)
    /\ display.next_id <= MaxSurfaces
    /\ \E c \in QueueCommands(q, Self) :
          inflight' = [inflight EXCEPT ![q] =
                          [op |-> c.op, cmd |-> c.cmd, env |-> c.env, pc |-> "start",
                           tmp |-> <<>>, resp |-> NoResponse]]
    /\ lock' = lock \cup {q}
    /\ acquired' = [acquired EXCEPT ![q] = Self]
    /\ UNCHANGED <<devvars, obsvars, codecvars>>

\* The caller holding the lock runs the next statement of its command.
Step(q) ==
    /\ q \in lock
    /\ inflight[q].pc \notin {"idle", "done"}
    /\ LET r == step(Self, inflight[q])
       IN  /\ resources' = r.self.resources
           /\ scanout_resource_id' = r.self.scanout_resource_id
           /\ scanout_surface_id' = r.self.scanout_surface_id
           /\ cursor_resource_id' = r.self.cursor_resource_id
           /\ cursor_surface_id' = r.self.cursor_surface_id
           /\ rutabaga' = r.self.rutabaga
           /\ display' = r.self.display
           /\ inflight' = [inflight EXCEPT ![q] = r.f]
    /\ UNCHANGED <<lock, acquired, obsvars, codecvars>>

\* The command returned: the caller takes the response and drops the lock.
Release(q) ==
    /\ q \in lock
    /\ inflight[q].pc = "done"
    /\ inflight' = [inflight EXCEPT ![q] = NoFrame]
    /\ lock' = lock \ {q}
    /\ acquired' = [acquired EXCEPT ![q] = VirtioGpu_new]
    /\ UNCHANGED <<devvars, obsvars, codecvars>>

NextLocked == \E q \in Queues : Acquire(q) \/ Step(q) \/ Release(q)

SpecLocked == Init /\ [][NextLocked]_vars

(***************************************************************************)
(* Properties of the device.                                                *)
(***************************************************************************)
ResourceNotFound == Err("ErrInvalidResourceId")
Commanded == last_cmd.op # "idle"

C2_BoundResourcesAreLive ==
    /\ scanout_resource_id \subseteq DOMAIN resources
    /\ cursor_resource_id \subseteq DOMAIN resources

\* C3: a command carrying a nonzero resource_id that is no key of the
\* resource table answers ErrInvalidResourceId and calls no adapter.
ResourceCommands ==
    {"cmd_resource_unref", "cmd_set_scanout", "cmd_flush_resource",
     "cmd_transfer_to_host_2d", "cmd_transfer_to_host_3d",
     "cmd_transfer_from_host_3d", "cmd_resource_attach_backing",
     "cmd_resource_detach_backing", "cmd_ctx_attach_resource",
     "cmd_ctx_detach_resource", "cmd_resource_assign_uuid", "cmd_update_cursor"}

C3_AbsentResourceRejected ==
    [][(/\ last_cmd'.op \in ResourceCommands
        /\ last_cmd.op = "idle"
        /\ last_cmd'.cmd.resource_id # 0
        /\ ~contains_key(resources, last_cmd'.cmd.resource_id))
            => (resp' = ResourceNotFound /\ calls' = <<>>)]_vars

\* C4: the ids of the resource table are the ids the renderer holds, after
\* every command, succeeded or failed.
C4_TablesInLockStep == DOMAIN resources = rutabaga

C4_Witness ==
    /\ last_cmd.op = "cmd_resource_unref"
    /\ resp = Err("RutabagaError")
    /\ last_cmd.cmd.resource_id \in rutabaga
    /\ Cardinality(rutabaga) = 2

\* C5: in every reachable state set-scanout with resource_id = 0 answers
\* OkNoData and leaves the scanout with no resource and no surface, and a
\* second one changes nothing more.
C5_ClearScanout ==
    /\ \A cmd \in SetScanoutCmds :
          cmd.resource_id = 0 =>
              LET once == cmd_set_scanout(Self, cmd)
                  twice == cmd_set_scanout(once.self, cmd)
              IN  /\ once.resp = Ok("OkNoData")
                  /\ once.self.scanout_resource_id = None
                  /\ once.self.scanout_surface_id = None
                  /\ twice.resp = once.resp
                  /\ twice.self = once.self
    /\ (last_cmd.op = "cmd_set_scanout" /\ last_cmd.cmd.resource_id = 0)
          => /\ resp = Ok("OkNoData")
             /\ scanout_resource_id = None
             /\ scanout_surface_id = None

C5_Witness ==
    /\ is_some(scanout_resource_id)
    /\ is_some(scanout_surface_id)
    /\ \E cmd \in SetScanoutCmds :
          /\ cmd.resource_id = 0
          /\ cmd_set_scanout(Self, cmd).self.scanout_surface_id = None
          /\ cmd_set_scanout(Self, cmd).self # Self

\* C6: the scanout has a resource exactly when it has a surface, and so has
\* the cursor, in every state between commands.
C6_BoundOrUnbound ==
    /\ is_some(scanout_resource_id) <=> is_some(scanout_surface_id)
    /\ is_some(cursor_resource_id) <=> is_some(cursor_surface_id)

\* C7: every command entry point returns one response, Ok(..) or Err(..),
\* for every id, size and position the guest sends and every outcome of the
\* adapters; none unwinds on an unwrap of None or an index out of range.
Responses == {"Ok", "Err"}
NoResponseEntryPoints == {"idle", "fence_poll", "force_ctx_0", "process_display"}

handle(self, op, cmd, env) ==
    CASE op = "cmd_resource_create_2d" -> cmd_resource_create_2d(self, cmd, env)
      [] op = "cmd_resource_unref" -> cmd_resource_unref(self, cmd, env)
      [] op = "cmd_set_scanout" -> cmd_set_scanout(self, cmd)
      [] op = "cmd_move_curosr" -> cmd_move_curosr(self, cmd)
      [] op = "cmd_update_cursor" -> cmd_update_cursor(self, cmd, env)

\* C8: with the control-queue caller and the cursor-queue caller each
\* holding the lock for the whole of every command, a command that returns
\* leaves the device, and answers, exactly as its handler run in one piece
\* on the device found when the lock was taken: the states between commands
\* are those of the commands in the order the lock was granted.  No second
\* cursor surface is ever created, and between commands the display's
\* surfaces are the cursor's surface.
C8_LockedCommandsAreSequential ==
    /\ \A q \in Queues :
          inflight[q].pc = "done" =>
              LET r == handle(acquired[q], inflight[q].op, inflight[q].cmd,
                              inflight[q].env)
              IN  /\ Self = r.self
                  /\ inflight[q].resp = r.resp
    /\ Cardinality(display.surfaces) <= 1
    /\ lock = {} => display.surfaces = cursor_surface_id

C8_Witness ==
    /\ inflight["cursor"].pc = "done"
    /\ inflight["cursor"].op = "cmd_update_cursor"
    /\ inflight["cursor"].resp = Ok("OkNoData")
    /\ is_none(acquired["cursor"].cursor_surface_id)
    /\ is_some(cursor_surface_id)
    /\ is_some(scanout_resource_id)
    /\ inflight["control"].pc = "idle"

(***************************************************************************)
(* The codec alone: a response and the three header arguments, drawn from   *)
(* bounded sets, and encode applied to them.                                *)
(***************************************************************************)
MaxDisplays == 17
MaxBlob == 3

DisplayModes == {<<1920, 1080>>, <<1, 2>>, <<2147483647, 65536>>}
DisplayLists ==
    {[i \in 1..n |-> IF i % 2 = 1 THEN a ELSE b] :
        n \in 0..MaxDisplays, a \in DisplayModes, b \in DisplayModes}
Blobs == {[i \in 1..n |-> (i - 1) % 256] : n \in 0..MaxBlob}
Uuids == {[i \in 1..16 |-> b] : b \in {2, 255}}

EncodeResponses ==
    {[variant |-> "OkDisplayInfo", data |-> d] : d \in DisplayLists}
    \cup {[variant |-> "OkCapsetInfo", data |-> <<1, 2, 3>>],
          [variant |-> "OkCapsetInfo", data |-> <<2147483647, 0, 256>>]}
    \cup {[variant |-> "OkCapset", data |-> b] : b \in Blobs}
    \cup {[variant |-> "OkResourceUuid", data |-> u] : u \in Uuids}
    \cup {[variant |-> v, data |-> <<>>] :
            v \in {"OkNoData", "ErrUnspec", "ErrOutOfMemory", "ErrInvalidScanoutId",
                   "ErrInvalidResourceId", "ErrInvalidContextId", "ErrInvalidParameter",
                   "EncodeError", "RutabagaError", "UnsupportPlatform",
                   "InvalidSglistRegion"}}
    \cup {[variant |-> "TooManyScanout", data |-> <<MaxDisplays>>]}

EncodeInputs ==
    [resp : EncodeResponses, flags : {0, 1}, fence_id : {0, 16909060}, ctx_id : {0, 3}]

InitCodec ==
    /\ InitDevice
    /\ lifecycle = Untracked
    /\ enc_in \in EncodeInputs
    /\ enc_out = NotEncoded
    /\ dec_in = NoDecode
    /\ dec_out = NotDecoded
    /\ reenc = <<>>

Encode ==
    /\ enc_out = NotEncoded
    /\ enc_out' = encode(enc_in.resp, enc_in.flags, enc_in.fence_id, enc_in.ctx_id)
    /\ UNCHANGED <<devvars, obsvars, enc_in, dec_in, dec_out, reenc, lockvars>>

NextCodec == Encode

SpecCodec == InitCodec /\ [][NextCodec]_vars

(***************************************************************************)
(* Properties of the codec.                                                 *)
(***************************************************************************)
Encoded == enc_out # NotEncoded
EncodingDisplayInfo == enc_in.resp.variant = "OkDisplayInfo"

\* The u32 read back from four little-endian bytes at a byte offset.
u32_at(bytes, off) ==
    bytes[off + 1] + 256 * bytes[off + 2] + 65536 * bytes[off + 3]
        + 16777216 * bytes[off + 4]

\* C9: encoding OkDisplayInfo with more than 16 entries fails with
\* TooManyScanout carrying the number of entries, and no byte is produced.
C9_TooManyScanout ==
    (Encoded /\ EncodingDisplayInfo /\ Len(enc_in.resp.data) > 16)
        => /\ enc_out.result = "Err"
           /\ enc_out.variant = "TooManyScanout"
           /\ enc_out.data = <<Len(enc_in.resp.data)>>
           /\ enc_out.bytes = <<>>

C9_Witness ==
    /\ Encoded
    /\ EncodingDisplayInfo
    /\ Len(enc_in.resp.data) = 17
    /\ enc_out.result = "Err"

\* C10: encoding OkDisplayInfo with n <= 16 entries gives 408 bytes: the
\* 24-byte header (response code 0x1101, then flags, fence_id, ctx_id and a
\* zero padding), then 16 records of 24 bytes; record i < n is x = 0, y = 0,
\* the i-th width and height, enabled = 1, flags = 0, and every record
\* i >= n is 24 zero bytes.
C10_DisplayInfoLayout ==
    (Encoded /\ EncodingDisplayInfo /\ Len(enc_in.resp.data) <= 16)
        => LET b == enc_out.bytes
               n == Len(enc_in.resp.data)
           IN  /\ enc_out.result = "Ok"
               /\ Len(b) = 408
               /\ u32_at(b, 0) = 4353
               /\ u32_at(b, 4) = enc_in.flags
               /\ u32_at(b, 8) = enc_in.fence_id
               /\ u32_at(b, 12) = 0
               /\ u32_at(b, 16) = enc_in.ctx_id
               /\ u32_at(b, 20) = 0
               /\ \A i \in 0..15 :
                    LET rec == 24 + 24 * i
                    IN  IF i < n
                        THEN /\ u32_at(b, rec) = 0
                             /\ u32_at(b, rec + 4) = 0
                             /\ u32_at(b, rec + 8) = enc_in.resp.data[i + 1][1]
                             /\ u32_at(b, rec + 12) = enc_in.resp.data[i + 1][2]
                             /\ u32_at(b, rec + 16) = 1
                             /\ u32_at(b, rec + 20) = 0
                        ELSE \A k \in 1..24 : b[rec + k] = 0

C10_Witness ==
    /\ Encoded
    /\ EncodingDisplayInfo
    /\ Len(enc_in.resp.data) = 2
    /\ enc_in.resp.data[1] # enc_in.resp.data[2]
    /\ enc_in.fence_id # 0
    /\ Len(enc_out.bytes) = 408

\* The variants of VirtioGpuResponse by kind.
ProtocolErrors ==
    {"ErrUnspec", "ErrOutOfMemory", "ErrInvalidScanoutId", "ErrInvalidResourceId",
     "ErrInvalidContextId", "ErrInvalidParameter"}
SuccessVariants ==
    {"OkNoData", "OkDisplayInfo", "OkCapsetInfo", "OkCapset", "OkResourceUuid"}
InternalVariants ==
    {"TooManyScanout", "EncodeError", "RutabagaError", "UnsupportPlatform",
     "InvalidSglistRegion"}

\* The wire code the protocol fixes for a header-only variant.
FixedCode(v) ==
    CASE v = "OkNoData" -> 4352
      [] v = "ErrUnspec" -> 4608
      [] v = "ErrOutOfMemory" -> 4609
      [] v = "ErrInvalidScanoutId" -> 4610
      [] v = "ErrInvalidResourceId" -> 4611
      [] v = "ErrInvalidContextId" -> 4612
      [] v = "ErrInvalidParameter" -> 4613

\* The header fields after the type, read back from the bytes.
HeaderCarriesArguments(b) ==
    /\ Len(b) >= 24
    /\ u32_at(b, 4) = enc_in.flags
    /\ u32_at(b, 8) = enc_in.fence_id
    /\ u32_at(b, 12) = 0
    /\ u32_at(b, 16) = enc_in.ctx_id
    /\ u32_at(b, 20) = 0

\* C11: encoding one of the six protocol error variants, or OkNoData, gives
\* exactly the 24 bytes of the header and no body, and the header's type is
\* the variant's fixed code (0x1200..0x1205, 0x1100 for OkNoData).
C11_HeaderOnlyVariants ==
    (Encoded /\ enc_in.resp.variant \in ProtocolErrors \cup {"OkNoData"})
        => /\ enc_out.result = "Ok"
           /\ Len(enc_out.bytes) = 24
           /\ u32_at(enc_out.bytes, 0) = FixedCode(enc_in.resp.variant)
           /\ HeaderCarriesArguments(enc_out.bytes)

C11_Witness ==
    /\ Encoded
    /\ enc_in.resp.variant = "ErrInvalidParameter"
    /\ enc_in.flags = 1
    /\ enc_out.bytes[1] = 5
    /\ enc_out.bytes[2] = 18
    /\ Len(enc_out.bytes) = 24

\* C12: the response-to-opcode mapping gives each success variant and each
\* protocol error variant a wire code of its own, and gives every internal
\* variant the unspecified-error code 0x1200; an internal variant encodes to
\* the 24 header bytes that ErrUnspec encodes to under the same flags, fence
\* id and context id.
C12_OpcodeMapping ==
    Encoded =>
        LET v == enc_in.resp.variant
            code == get_resp_command_const(enc_in.resp)
        IN  /\ v \in SuccessVariants \cup ProtocolErrors =>
                /\ \A r \in EncodeResponses :
                      (r.variant \in SuccessVariants \cup ProtocolErrors
                       /\ r.variant # v) => get_resp_command_const(r) # code
                /\ enc_out.result = "Ok" => u32_at(enc_out.bytes, 0) = code
            /\ v \in InternalVariants =>
                /\ code = 4608
                /\ enc_out.result = "Ok"
                /\ Len(enc_out.bytes) = 24
                /\ u32_at(enc_out.bytes, 0) = 4608
                /\ enc_out.bytes =
                     encode([variant |-> "ErrUnspec", data |-> <<>>],
                            enc_in.flags, enc_in.fence_id, enc_in.ctx_id).bytes

C12_Witness ==
    /\ Encoded
    /\ enc_in.resp.variant = "TooManyScanout"
    /\ enc_in.fence_id # 0
    /\ enc_in.ctx_id # 0
    /\ Len(enc_out.bytes) = 24
    /\ enc_out.bytes[2] = 18

\* C13: encoding OkCapset(blob) gives the 24-byte header followed by the
\* blob's bytes in order and nothing else: no length prefix, no padding, so
\* the length is 24 + len(blob), also for the empty blob.
C13_CapsetBlob ==
    (Encoded /\ enc_in.resp.variant = "OkCapset")
        => LET blob == enc_in.resp.data
               b == enc_out.bytes
           IN  /\ enc_out.result = "Ok"
               /\ Len(b) = 24 + Len(blob)
               /\ u32_at(b, 0) = 4355
               /\ HeaderCarriesArguments(b)
               /\ \A i \in 1..Len(blob) : b[24 + i] = blob[i]

C13_Witness ==
    /\ Encoded
    /\ enc_in.resp.variant = "OkCapset"
    /\ enc_in.resp.data = <<0, 1, 2>>
    /\ Len(enc_out.bytes) = 27

\* C14: every successful encode(flags, fence_id, ctx_id) begins with the
\* 24-byte little-endian header: the type is the response's mapped code,
\* flags, fence_id and ctx_id are the three arguments, the padding is 0.
\* OkCapsetInfo appends capset_id, version, size and a zero word, and
\* OkResourceUuid appends the 16 uuid bytes: 40 bytes each.
C14_HeaderAndFixedPayloads ==
    (Encoded /\ enc_out.result = "Ok")
        => LET b == enc_out.bytes
               d == enc_in.resp.data
           IN  /\ HeaderCarriesArguments(b)
               /\ u32_at(b, 0) = get_resp_command_const(enc_in.resp)
               /\ enc_in.resp.variant = "OkCapsetInfo" =>
                    /\ Len(b) = 40
                    /\ u32_at(b, 0) = 4354
                    /\ u32_at(b, 24) = d[1]
                    /\ u32_at(b, 28) = d[2]
                    /\ u32_at(b, 32) = d[3]
                    /\ u32_at(b, 36) = 0
               /\ enc_in.resp.variant = "OkResourceUuid" =>
                    /\ Len(b) = 40
                    /\ u32_at(b, 0) = 4357
                    /\ \A i \in 1..16 : b[24 + i] = d[i]

C14_Witness ==
    /\ Encoded
    /\ enc_in.resp = [variant |-> "OkCapsetInfo", data |-> <<1, 2, 3>>]
    /\ enc_in.flags = 1
    /\ enc_in.fence_id = 16909060
    /\ enc_in.ctx_id = 3
    /\ SubSeq(enc_out.bytes, 5, 24) =
          <<1, 0, 0, 0, 4, 3, 2, 1, 0, 0, 0, 0, 3, 0, 0, 0, 0, 0, 0, 0>>
    /\ SubSeq(enc_out.bytes, 25, 40) =
          <<1, 0, 0, 0, 2, 0, 0, 0, 3, 0, 0, 0, 0, 0, 0, 0>>

(***************************************************************************)
(* The decoder alone: a command record in guest memory, drawn from bounded  *)
(* sets, decode applied to it, and the decoded record turned back into      *)
(* bytes.                                                                   *)
(***************************************************************************)
MaxSeed == 2

KnownOpcodes ==
    {VIRTIO_GPU_CMD_GET_DISPLAY_INFO, VIRTIO_GPU_CMD_RESOURCE_CREATE_2D,
     VIRTIO_GPU_CMD_RESOURCE_UNREF, VIRTIO_GPU_CMD_SET_SCANOUT,
     VIRTIO_GPU_CMD_RESOURCE_FLUSH, VIRTIO_GPU_CMD_TRANSFER_TO_HOST_2D,
     VIRTIO_GPU_CMD_RESOURCE_ATTACH_BACKING, VIRTIO_GPU_CMD_RESOURCE_DETACH_BACKING,
     VIRTIO_GPU_CMD_GET_CAPSET_INFO, VIRTIO_GPU_CMD_GET_CAPSET,
     VIRTIO_GPU_CMD_GET_EDID, VIRTIO_GPU_CMD_CTX_CREATE,
     VIRTIO_GPU_CMD_CTX_DESTROY, VIRTIO_GPU_CMD_CTX_ATTACH_RESOURCE,
     VIRTIO_GPU_CMD_CTX_DETACH_RESOURCE, VIRTIO_GPU_CMD_RESOURCE_CREATE_3D,
     VIRTIO_GPU_CMD_TRANSFER_TO_HOST_3D, VIRTIO_GPU_CMD_TRANSFER_FROM_HOST_3D,
     VIRTIO_GPU_CMD_SUBMIT_3D, VIRTIO_GPU_CMD_UPDATE_CURSOR,
     VIRTIO_GPU_CMD_MOVE_CURSOR}
UnknownTypes == {0, 267, 768, 4352}

\* The value the guest gives field i of a record: zero, or one that differs
\* from field to field.
field_value(seed, f, i) ==
    IF f.kind = "le"
    THEN IF seed = 0 THEN 0 ELSE 1000 * seed + i
    ELSE [k \in 1..f.size |-> IF seed = 0 THEN 0 ELSE (seed + k) % 256]

\* The record as the guest writes it: the fields one after the other in the
\* protocol's layout, the type first.
wire(T, type_, seed) ==
    LET fields == Layout(T)
        bytes_of(i) ==
            LET v == IF i = 1 THEN type_ ELSE field_value(seed, fields[i], i)
            IN  IF fields[i].kind = "le" THEN le_bytes(v, fields[i].size) ELSE v
    IN  concat([i \in 1..Len(fields) |-> bytes_of(i)])

\* What follows the record in guest memory: nothing mapped, or four bytes.
Tails == {<<>>, <<0, 0, 0, 0>>, <<9, 9, 9, 9>>}
Addrs == {0, 8}
\* How much of the record is mapped: all of it (0), the header short of its
\* last field, or the header and nothing of what follows it.
Cuts == {0, 16, 24}

DecodeInput(type_, seed, tail, addr, cut) ==
    LET T == IF type_ \in KnownOpcodes THEN CommandOf(type_)[2]
             ELSE "virtio_gpu_ctrl_hdr"
        record == wire(T, type_, seed)
        held == IF cut = 0 THEN record \o tail ELSE SubSeq(record, 1, cut)
    IN  [mem |-> [start |-> 0, bytes |-> [k \in 1..addr |-> 0] \o held],
         addr |-> addr]

DecodeInputs ==
    {DecodeInput(t, seed, tail, addr, cut) :
        t \in KnownOpcodes \cup UnknownTypes, seed \in 0..MaxSeed,
        tail \in Tails, addr \in Addrs, cut \in Cuts}

InitDecode ==
    /\ InitDevice
    /\ lifecycle = Untracked
    /\ enc_in = NoEncode
    /\ enc_out = NotEncoded
    /\ dec_in \in DecodeInputs
    /\ dec_out = NotDecoded
    /\ reenc = <<>>

Decode ==
    /\ dec_in # NoDecode
    /\ dec_out = NotDecoded
    /\ dec_out' = decode(dec_in.mem, dec_in.addr)
    /\ UNCHANGED <<devvars, obsvars, enc_in, enc_out, dec_in, reenc, lockvars>>

\* The bytes decode consumed for a record of type T.
consumed(in, T) == SubSeq(in.mem.bytes, in.addr + 1, in.addr + size_of(T))

\* ByteValued::as_slice on the decoded record.  The bytes of the record that
\* belong to no field are not part of its value: they come out as they were
\* read, or as zeroes, as the build happens to copy the record.
AsSlice ==
    /\ dec_out.result = "Ok"
    /\ reenc = <<>>
    /\ \E kept \in BOOLEAN :
          reenc' = as_slice(dec_out.struct, dec_out.data,
                            IF kept THEN consumed(dec_in, dec_out.struct)
                            ELSE [k \in 1..size_of(dec_out.struct) |-> 0])
    /\ UNCHANGED <<devvars, obsvars, enc_in, enc_out, dec_in, dec_out, lockvars>>

NextDecode == Decode \/ AsSlice

SpecDecode == InitDecode /\ [][NextDecode]_vars

(***************************************************************************)
(* Properties of the decoder.                                               *)
(***************************************************************************)
Decoded == dec_out # NotDecoded
HeaderReadable(in) == in.addr + 24 <= Len(in.mem.bytes)
HeaderBytes(in) == SubSeq(in.mem.bytes, in.addr + 1, in.addr + 24)
TypeInMemory(in) == from_le_bytes(SubSeq(in.mem.bytes, in.addr + 1, in.addr + 4))

\* C15: when the header is readable and its type is none of the 21 known
\* opcodes, decode returns InvalidCommand carrying that type, and the
\* outcome is the same whatever follows the 24 bytes of the header, mapped
\* or not.
C15_UnknownOpcode ==
    (Decoded /\ HeaderReadable(dec_in) /\ TypeInMemory(dec_in) \notin KnownOpcodes)
        => /\ dec_out = [result |-> "Err", variant |-> "InvalidCommand",
                         data |-> <<TypeInMemory(dec_in)>>]
           /\ \A other \in DecodeInputs :
                (/\ other.addr = dec_in.addr
                 /\ HeaderReadable(other)
                 /\ HeaderBytes(other) = HeaderBytes(dec_in))
                    => decode(other.mem, other.addr) = dec_out

C15_Witness ==
    /\ Decoded
    /\ TypeInMemory(dec_in) = 267
    /\ dec_in.addr = 8
    /\ Len(dec_in.mem.bytes) = dec_in.addr + 24
    /\ dec_out.variant = "InvalidCommand"
    /\ dec_out.data = <<267>>

\* C16: for every fixed-layout command, decoding a valid record and turning
\* the decoded record back into bytes gives the bytes that were decoded, so
\* that two memories that differ inside the record never decode to the same
\* command.
C16_RoundTrip ==
    /\ reenc # <<>> => reenc = consumed(dec_in, dec_out.struct)
    /\ (Decoded /\ dec_out.result = "Ok") =>
          \A other \in DecodeInputs :
              (other.addr = dec_in.addr /\ decode(other.mem, other.addr) = dec_out)
                  => consumed(other, dec_out.struct) = consumed(dec_in, dec_out.struct)

(***************************************************************************)
(* Properties of the scanout and of the resource commands.                  *)
(***************************************************************************)
\* A step that runs the command `op` from an idle device.
Runs(op) == last_cmd.op = "idle" /\ last_cmd'.op = op

\* C17: the scanouts are independent slots: a set-scanout on scanout_id a
\* leaves the resource and the surface bound for every other scanout_id b
\* as they were.  (The scanout b is the one bound when the surface held is
\* the surface of b.)
C17_IndependentScanouts ==
    [][Runs("cmd_set_scanout") =>
          \A b \in ScanoutIds \ {last_cmd'.cmd.scanout_id} :
              scanout_surface_id = Some(b) =>
                  /\ scanout_surface_id' = Some(b)
                  /\ scanout_resource_id' = scanout_resource_id]_vars

\* C18: a create 2D/3D whose renderer creation succeeded answers OkNoData
\* only when the query of the same id that follows fails; when the query
\* succeeds the answer is an error response; when the renderer's creation
\* fails the answer is the backend error and no local record is inserted.
C18_CreatePolarity ==
    [][(Runs("cmd_resource_create_2d") \/ Runs("cmd_resource_create_3d")) =>
          LET id == last_cmd'.cmd.resource_id
          IN  /\ Len(calls') >= 1
              /\ calls'[1].fn = "resource_create_3d"
              /\ calls'[1].args.resource_id = id
              /\ calls'[1].ok =>
                    /\ Len(calls') = 2
                    /\ calls'[2].fn = "query"
                    /\ calls'[2].args.resource_id = id
                    /\ (resp'.variant = "OkNoData") <=> ~calls'[2].ok
                    /\ calls'[2].ok => resp'.variant \in ProtocolErrors
              /\ ~calls'[1].ok =>
                    /\ Len(calls') = 1
                    /\ resp' = Err("RutabagaError")
                    /\ resources' = resources]_vars

C18_Witness ==
    /\ last_cmd.op = "cmd_resource_create_2d"
    /\ Len(calls) = 2
    /\ calls[1].ok
    /\ calls[2].ok
    /\ resp.variant = "ErrInvalidResourceId"
    /\ contains_key(resources, last_cmd.cmd.resource_id)

\* C19: unref asks the renderer to release the id, then removes the local
\* record.  Renderer call succeeded and record present: OkNoData, and the id
\* is gone from the table.  Renderer call succeeded and record absent:
\* resource-not-found.  Renderer call failed: the record stays and the
\* backend error is the answer.
C19_Unref ==
    [][Runs("cmd_resource_unref") =>
          LET id == last_cmd'.cmd.resource_id
              present == contains_key(resources, id)
          IN  /\ Len(calls') = 1
              /\ calls'[1].fn = "unref_resource"
              /\ calls'[1].args.resource_id = id
              /\ (calls'[1].ok /\ present) =>
                    /\ resp' = Ok("OkNoData")
                    /\ resources' = remove(resources, id)
              /\ (calls'[1].ok /\ ~present) =>
                    /\ resp' = ResourceNotFound
                    /\ resources' = resources
              /\ ~calls'[1].ok =>
                    /\ resp' = Err("RutabagaError")
                    /\ resources' = resources]_vars

C19_Witness ==
    /\ last_cmd.op = "cmd_resource_unref"
    /\ calls[1].ok
    /\ resp = ResourceNotFound
    /\ resources # EmptyMap

\* C20: set-scanout with a nonzero resource_id: an id that is no key of the
\* resource table gives resource-not-found and leaves the scanout's resource
\* and surface as they were; an id of the table gives OkNoData and becomes
\* the scanout's resource.
C20_SetScanout ==
    [][(Runs("cmd_set_scanout") /\ last_cmd'.cmd.resource_id # 0) =>
          LET id == last_cmd'.cmd.resource_id
          IN  IF contains_key(resources, id)
              THEN /\ resp' = Ok("OkNoData")
                   /\ scanout_resource_id' = Some(id)
              ELSE /\ resp' = ResourceNotFound
                   /\ scanout_resource_id' = scanout_resource_id
                   /\ scanout_surface_id' = scanout_surface_id]_vars

C20_Witness ==
    /\ last_cmd.op = "cmd_set_scanout"
    /\ last_cmd.cmd.resource_id # 0
    /\ resp = ResourceNotFound
    /\ is_some(scanout_resource_id)
    /\ is_some(scanout_surface_id)

(***************************************************************************)
(* Surfaces of the scanout and of the cursor.                               *)
(***************************************************************************)
\* The create_surface calls of a command that the display answered with a
\* surface.
Allocations(cs) == {i \in 1..Len(cs) : cs[i].fn = "create_surface" /\ cs[i].ok}

Clears(op) == Runs(op) /\ last_cmd'.cmd.resource_id = 0

\* C21: from the first nonzero bind until the next clear to 0, the surface
\* of the scanout, and likewise of the cursor, is allocated at most once and
\* every later nonzero bind keeps the handle: a handle that is held changes
\* only by a clear, which drops it, and the display allocates a surface only
\* for a cursor that holds none, one per command.
C21_SurfaceReuse ==
    [][/\ is_some(scanout_surface_id) =>
            \/ scanout_surface_id' = scanout_surface_id
            \/ Clears("cmd_set_scanout") /\ is_none(scanout_surface_id')
       /\ is_some(cursor_surface_id) =>
            \/ cursor_surface_id' = cursor_surface_id
            \/ Clears("cmd_update_cursor") /\ is_none(cursor_surface_id')
       /\ Cardinality(Allocations(calls')) <= 1
       /\ (Allocations(calls') # {} \/ display'.surfaces \ display.surfaces # {}) =>
            /\ Runs("cmd_update_cursor")
            /\ is_none(cursor_surface_id)
            /\ cursor_surface_id' = Some(display.next_id)
            /\ display'.surfaces = display.surfaces \cup {display.next_id}]_vars

\* A nonzero bind that names another scanout_id than the handle held, and a
\* nonzero cursor bind on the surface an earlier bind allocated.
C21_Witness ==
    \/ /\ last_cmd.op = "cmd_set_scanout"
       /\ last_cmd.cmd.resource_id # 0
       /\ resp = Ok("OkNoData")
       /\ scanout_surface_id # Some(last_cmd.cmd.scanout_id)
       /\ is_some(cursor_surface_id)
       /\ is_some(scanout_surface_id)

\* The calls of a command that pass the display a surface handle on behalf
\* of the scanout: the presents, commits and close queries on the scanout's
\* surface, and the creation of a surface parented to it.
SurfaceFns == {"flip", "flip_to", "framebuffer_region", "next_buffer_in_use",
               "commit", "close_requested"}

PassedForScanout(cs, scanout) ==
    {cs[i].args.surface_id :
        i \in {j \in 1..Len(cs) : /\ cs[j].adapter = "display"
                                  /\ cs[j].fn \in SurfaceFns
                                  /\ Some(cs[j].args.surface_id) = scanout}}
    \cup UNION {cs[i].args.parent_surface_id :
                  i \in {j \in 1..Len(cs) : /\ cs[j].adapter = "display"
                                            /\ cs[j].fn = "create_surface"}}

\* C22: every surface handle passed to the display for the scanout is one
\* the display's surface creation returned and that is not released yet,
\* and the handle the scanout takes at a bind is such a handle, not the
\* scanout_id of the command.
C22_ScanoutHandleFromDisplay ==
    [][/\ PassedForScanout(calls', scanout_surface_id) \subseteq display.surfaces
       /\ (Runs("cmd_set_scanout") /\ is_none(scanout_surface_id)) =>
            scanout_surface_id' \subseteq display'.surfaces]_vars

(***************************************************************************)
(* Resource flush.                                                          *)
(***************************************************************************)
\* A present on a surface begins by asking whether its next buffer is in
\* use: the surfaces a command tried to present, in order.
Presented(cs) ==
    LET asked == SelectSeq(cs, LAMBDA c : c.fn = "next_buffer_in_use")
    IN  [i \in 1..Len(asked) |-> asked[i].args.surface_id]

\* The surface of a binding that a flush of id presents: the binding holds
\* a surface and its resource is id, a resource of the table.
Target(resource, surface, id) ==
    IF resource = Some(id) /\ is_some(surface) /\ contains_key(resources, id)
    THEN <<unwrap(surface)>>
    ELSE <<>>

\* C23: a flush of resource_id 0 returns OkNoData and calls no adapter; a
\* flush of another id attempts a present on the scanout and on the cursor,
\* each if its bound resource is the id flushed: on both when both are bound
\* to it, whatever the scanout's present returned, and on neither when the
\* id is the resource of neither.
C23_FlushPresentsEachBinding ==
    [][Runs("cmd_flush_resource") =>
          LET id == last_cmd'.cmd.resource_id
          IN  IF id = 0
              THEN resp' = Ok("OkNoData") /\ calls' = <<>>
              ELSE /\ Presented(calls') =
                        Target(scanout_resource_id, scanout_surface_id, id)
                            \o Target(cursor_resource_id, cursor_surface_id, id)
                   /\ (scanout_resource_id # Some(id) /\ cursor_resource_id # Some(id))
                        => (resp' = Ok("OkNoData") /\ calls' = <<>>)]_vars

\* C24: on the copy path of a present, when the display reports the
\* surface's next buffer in use, the present ends there: no transfer_read
\* into that surface, no flip or commit on it, and OkNoData.  A
\* transfer_read happens only after the display reported the buffer not in
\* use and gave the framebuffer, and a flip only right after the
\* transfer_read into that surface succeeded.
C24_InUseSkipsCopy ==
    [][Runs("cmd_flush_resource") =>
          \A i \in 1..Len(calls') :
              LET c == calls'[i]
              IN  /\ c.fn \in {"next_buffer_in_use", "framebuffer_region",
                               "transfer_read", "flip"}
                  /\ (c.fn = "next_buffer_in_use" /\ c.ok) =>
                        IF i = Len(calls')
                        THEN resp' = Ok("OkNoData")
                        ELSE calls'[i + 1].fn = "next_buffer_in_use"
                  /\ c.fn = "transfer_read" =>
                        /\ i >= 3
                        /\ calls'[i - 2].fn = "next_buffer_in_use"
                        /\ ~calls'[i - 2].ok
                        /\ Some(calls'[i - 2].args.surface_id) = c.args.buf
                        /\ calls'[i - 1].fn = "framebuffer_region"
                        /\ calls'[i - 1].ok
                        /\ Some(calls'[i - 1].args.surface_id) = c.args.buf
                  /\ c.fn = "flip" =>
                        /\ i >= 2
                        /\ calls'[i - 1].fn = "transfer_read"
                        /\ calls'[i - 1].ok
                        /\ calls'[i - 1].args.buf = Some(c.args.surface_id)]_vars

\* A flush that finds the scanout's buffer in use and the cursor's free:
\* nothing but the query on the first, the copy and the flip on the second.
C24_Witness ==
    /\ last_cmd.op = "cmd_flush_resource"
    /\ resp = Ok("OkNoData")
    /\ Len(calls) = 5
    /\ calls[1].fn = "next_buffer_in_use" /\ calls[1].ok
    /\ calls[2].fn = "next_buffer_in_use" /\ ~calls[2].ok
    /\ calls[4].fn = "transfer_read" /\ calls[4].ok
    /\ calls[5].fn = "flip"
    /\ calls[5].args.surface_id # calls[1].args.surface_id

(***************************************************************************)
(* Cursor.                                                                  *)
(***************************************************************************)
\* C25: a cursor update with resource_id 0, from any state, returns
\* OkNoData, releases the cursor surface through the display exactly once if
\* the cursor holds one and makes no release call if it holds none, and
\* leaves the cursor with no resource id and no surface handle.
C25_CursorClear ==
    [][Clears("cmd_update_cursor") =>
          /\ resp' = Ok("OkNoData")
          /\ calls' = IF is_some(cursor_surface_id)
                      THEN <<DisplayCall("release_surface",
                                         [surface_id |-> unwrap(cursor_surface_id)],
                                         TRUE)>>
                      ELSE <<>>
          /\ display'.surfaces = display.surfaces \ cursor_surface_id
          /\ is_none(cursor_resource_id')
          /\ is_none(cursor_surface_id')]_vars

\* A clear that released the surface the cursor held.
C25_Witness ==
    /\ last_cmd.op = "cmd_update_cursor"
    /\ last_cmd.cmd.resource_id = 0
    /\ Len(calls) = 1
    /\ calls[1].fn = "release_surface"
    /\ calls[1].args.surface_id \notin display.surfaces
    /\ is_none(cursor_surface_id)

\* The calls of a command that present a surface.
PresentFns == {"flip", "flip_to", "framebuffer", "framebuffer_region",
               "next_buffer_in_use", "transfer_read", "commit"}

\* C26: a cursor update with a nonzero resource_id.  An id that is no key of
\* the resource table: resource-not-found, the cursor's resource and surface
\* as they were, no call to the display.  An id of the table: it becomes the
\* cursor's resource; a cursor surface is created, with the resource's width
\* and height and the scanout's surface as parent, if and only if the cursor
\* holds none; the surface's position is set to the command's (x, y) before
\* any call that presents.
C26_CursorBind ==
    [][(Runs("cmd_update_cursor") /\ last_cmd'.cmd.resource_id # 0) =>
          LET cmd == last_cmd'.cmd
              id == cmd.resource_id
              creates == {i \in 1..Len(calls') : calls'[i].fn = "create_surface"}
              positions == {i \in 1..Len(calls') : calls'[i].fn = "set_position"}
              presents == {i \in 1..Len(calls') : calls'[i].fn \in PresentFns}
          IN  IF ~contains_key(resources, id)
              THEN /\ resp' = ResourceNotFound
                   /\ cursor_resource_id' = cursor_resource_id
                   /\ cursor_surface_id' = cursor_surface_id
                   /\ display' = display
                   /\ calls' = <<>>
              ELSE /\ cursor_resource_id' = Some(id)
                   /\ resources' = resources
                   /\ creates = IF is_none(cursor_surface_id) THEN {1} ELSE {}
                   /\ \A i \in creates :
                        calls'[i].args =
                            [parent_surface_id |-> scanout_surface_id,
                             width |-> resources[id].width,
                             height |-> resources[id].height]
                   /\ is_some(cursor_surface_id) =>
                        cursor_surface_id' = cursor_surface_id
                   /\ IF is_some(cursor_surface_id')
                      THEN /\ Cardinality(positions) = 1
                           /\ \A i \in positions :
                                /\ calls'[i].args =
                                       [surface_id |-> unwrap(cursor_surface_id'),
                                        x |-> cmd.pos.x, y |-> cmd.pos.y]
                                /\ \A j \in presents : i < j
                           /\ presents # {}
                      ELSE /\ positions = {} /\ presents = {}
                           /\ ~calls'[1].ok]_vars

\* A bind that created the cursor surface under the scanout's, positioned
\* it and presented it.
C26_Witness ==
    /\ last_cmd.op = "cmd_update_cursor"
    /\ resp = Ok("OkNoData")
    /\ Len(calls) = 5
    /\ calls[1].fn = "create_surface"
    /\ is_some(calls[1].args.parent_surface_id)
    /\ calls[2].fn = "set_position"
    /\ calls[5].fn = "flip"
    /\ cursor_surface_id = Some(calls[5].args.surface_id)

IsUuidOf(u, n) ==
    /\ Len(u) = 16
    /\ \A i \in 1..12 : u[i] = 0
    /\ \A i \in 13..16 : u[i] \in 0..255
    /\ u[13] * 16777216 + u[14] * 65536 + u[15] * 256 + u[16] = n

\* Ids with more than one nonzero byte.
WideIds == {258, 66051, 16909060, 2147483647}

\* C28: assign-uuid returns resource-not-found for an id that is no key of
\* the resource table; for an id of the table it returns a 16-byte UUID whose
\* first 12 bytes are zero and whose last 4 are the big-endian bytes of the
\* id, so that distinct live ids get distinct UUIDs and one id always the
\* same; it changes no state.
C28_AssignUuid ==
    [][Runs("cmd_resource_assign_uuid") =>
          LET id == last_cmd'.cmd.resource_id
              uuid(self, n) ==
                  cmd_resource_assign_uuid(self, [resource_id |-> n]).resp.data
              holding(n) ==
                  [Self EXCEPT !.resources =
                      insert(@, n, VirtioGpuResource_new(n, 1, 2, 0))]
          IN  /\ UNCHANGED devvars
              /\ calls' = <<>>
              /\ IF ~contains_key(resources, id)
                 THEN resp' = ResourceNotFound
                 ELSE /\ resp'.result = "Ok"
                      /\ resp'.variant = "OkResourceUuid"
                      /\ IsUuidOf(resp'.data, id)
                      /\ \A other \in DOMAIN resources :
                            (uuid(Self, other) = resp'.data) <=> (other = id)
              /\ \A n \in WideIds : IsUuidOf(uuid(holding(n), n), n)]_vars

\* A UUID given for one of two live ids.
C28_Witness ==
    /\ last_cmd.op = "cmd_resource_assign_uuid"
    /\ resp.variant = "OkResourceUuid"
    /\ Cardinality(DOMAIN resources) = 2
    /\ resp.data[16] = last_cmd.cmd.resource_id

\* A span (addr, len) that lies within one region of guest memory.
FullyMapped(v) ==
    \E r \in GuestMem :
        /\ r.start <= v[1] /\ v[1] < r.start + r.len
        /\ v[1] + v[2] <= r.start + r.len

\* C29: the translation of an attach-backing span list to host iovecs is all
\* or nothing.  A span that is not fully mapped: the invalid-region error, no
\* iovec produced and none handed to the renderer.  Every span mapped: one
\* iovec a span, in the spans' order, each with its span's length.
C29_SglistAllOrNothing ==
    [][Runs("cmd_resource_attach_backing") =>
          LET vecs == last_cmd'.cmd.vecs
              translated == sglist_to_rutabaga_iovecs(vecs, GuestMem)
          IN  IF \E i \in 1..Len(vecs) : ~FullyMapped(vecs[i])
              THEN /\ resp' = Err("InvalidSglistRegion")
                   /\ translated.iovecs = <<>>
                   /\ calls' = <<>>
              ELSE /\ translated.resp.result = "Ok"
                   /\ Len(translated.iovecs) = Len(vecs)
                   /\ \A i \in 1..Len(vecs) :
                        /\ translated.iovecs[i].len = vecs[i][2]
                        /\ \E r \in GuestMem :
                              translated.iovecs[i].base = r.host + (vecs[i][1] - r.start)
                   /\ Len(calls') = 1
                   /\ calls'[1].fn = "attach_backing"
                   /\ calls'[1].args =
                        [resource_id |-> last_cmd'.cmd.resource_id,
                         data |-> translated.iovecs]]_vars

\* A list of a mapped span and one that runs past its region, refused whole.
C29_Witness ==
    /\ last_cmd.op = "cmd_resource_attach_backing"
    /\ Len(last_cmd.cmd.vecs) = 2
    /\ FullyMapped(last_cmd.cmd.vecs[1])
    /\ ~FullyMapped(last_cmd.cmd.vecs[2])
    /\ resp = Err("InvalidSglistRegion")
    /\ calls = <<>>

\* The transfer box of a 3D transfer command, field by field.
BoxOf3D(cmd) ==
    [x |-> cmd.box_.x, y |-> cmd.box_.y, z |-> cmd.box_.z,
     w |-> cmd.box_.w, h |-> cmd.box_.h, d |-> cmd.box_.d,
     level |-> cmd.level, stride |-> cmd.stride,
     layer_stride |-> cmd.layer_stride, offset |-> cmd.offset]

TransferOps == {"cmd_transfer_to_host_2d", "cmd_transfer_to_host_3d",
                "cmd_transfer_from_host_3d"}

\* C30: a transfer command forwards to the renderer the header's ctx_id, the
\* command's resource_id and a transfer box with every geometry and offset
\* field as the command gave it: for the 3D transfers x, y, z, w, h, d,
\* level, stride, layer_stride and offset; for transfer-to-host 2D the rect's
\* x, y, width and height with z = 0 and d = 1, together with the command's
\* offset.
C30_TransferFieldsForwarded ==
    [][(\E op \in TransferOps : Runs(op)) =>
          LET cmd == last_cmd'.cmd
              args == calls'[1].args
          IN  /\ Len(calls') = 1
              /\ calls'[1].fn = IF last_cmd'.op = "cmd_transfer_from_host_3d"
                               THEN "transfer_read" ELSE "transfer_write"
              /\ args.ctx_id = cmd.hdr.ctx_id
              /\ args.resource_id = cmd.resource_id
              /\ IF last_cmd'.op = "cmd_transfer_to_host_2d"
                 THEN /\ args.transfer.x = cmd.r.x
                      /\ args.transfer.y = cmd.r.y
                      /\ args.transfer.w = cmd.r.width
                      /\ args.transfer.h = cmd.r.height
                      /\ args.transfer.z = 0
                      /\ args.transfer.d = 1
                      /\ args.transfer.offset = cmd.offset
                 ELSE args.transfer = BoxOf3D(cmd)]_vars

(***************************************************************************)
(* Resource creation.                                                       *)
(***************************************************************************)
\* The create-3D command that a create-2D command stands for.
As3D(cmd) ==
    [resource_id |-> cmd.resource_id, target |-> RUTABAGA_PIPE_TEXTURE_2D,
     format |-> cmd.format, bind |-> RUTABAGA_PIPE_BIND_RENDER_TARGET,
     width |-> cmd.width, height |-> cmd.height, depth |-> 1,
     array_size |-> 1, last_level |-> 0, nr_samples |-> 0, flags |-> 0]

\* The create-2D command with the id, format, width and height of a
\* create-3D command.
As2D(cmd) ==
    [resource_id |-> cmd.resource_id, format |-> cmd.format,
     width |-> cmd.width, height |-> cmd.height]

\* What the renderer answered to the calls of a create.
Answered(cs) ==
    [create_ok |-> cs[1].ok, query_ok |-> Len(cs) = 2 /\ cs[2].ok]

\* The step just taken is the step r describes.
Took(r) ==
    /\ resp' = r.resp
    /\ calls' = r.calls
    /\ resources' = r.self.resources
    /\ rutabaga' = r.self.rutabaga
    /\ scanout_resource_id' = r.self.scanout_resource_id
    /\ scanout_surface_id' = r.self.scanout_surface_id
    /\ cursor_resource_id' = r.self.cursor_resource_id
    /\ cursor_surface_id' = r.self.cursor_surface_id
    /\ display' = r.self.display

\* C31: create-2D with (resource_id, format, width, height) makes the same
\* request to the renderer, leaves the same record in the table and returns
\* the same response, from the same state and with the same answers of the
\* renderer, as create-3D with that resource_id, format, width and height
\* and target 2D texture, bind render target, depth 1, array_size 1,
\* last_level 0, nr_samples 0, flags 0.
C31_Create2DIsCreate3D ==
    [][/\ Runs("cmd_resource_create_2d") =>
            Took(cmd_resource_create_3d(Self, As3D(last_cmd'.cmd), Answered(calls')))
       /\ (Runs("cmd_resource_create_3d") /\ last_cmd'.cmd = As3D(As2D(last_cmd'.cmd))) =>
            Took(cmd_resource_create_2d(Self, As2D(last_cmd'.cmd), Answered(calls')))]_vars

\* A create-2D that the renderer accepted and that left its record.
C31_Witness ==
    /\ last_cmd.op = "cmd_resource_create_2d"
    /\ Len(calls) = 2
    /\ calls[1].args.request.depth = 1
    /\ resp = Ok("OkNoData")
    /\ contains_key(resources, last_cmd.cmd.resource_id)
    /\ resources[last_cmd.cmd.resource_id].height = last_cmd.cmd.height

(***************************************************************************)
(* The decoder: variants, sizes and layouts.                                *)
(***************************************************************************)
ParserError == [result |-> "Err", variant |-> "ParserError", data |-> <<>>]

\* All size_of::<T>() bytes at the command's address are mapped.
RecordReadable(in, T) == in.addr + size_of(T) <= Len(in.mem.bytes)

\* C32: decode selects the variant from the header's type alone, and each of
\* the 21 opcodes has a variant of its own: two memories decode to the same
\* variant exactly when their types are equal.  decode fails with ParserError
\* when the header, or the whole record of a known opcode, is not inside
\* mapped memory; a command it returns has every field of its record.
C32_VariantByTypeAlone ==
    Decoded =>
        LET t == TypeInMemory(dec_in)
        IN  /\ ~HeaderReadable(dec_in) => dec_out = ParserError
            /\ (HeaderReadable(dec_in) /\ t \in KnownOpcodes) =>
                  IF RecordReadable(dec_in, CommandOf(t)[2])
                  THEN /\ dec_out.result = "Ok"
                       /\ dec_out.variant = CommandOf(t)[1]
                       /\ Len(dec_out.data) = Len(Layout(CommandOf(t)[2]))
                       /\ dec_out.data[1] = t
                  ELSE dec_out = ParserError
            /\ dec_out.result = "Ok" =>
                  \A other \in DecodeInputs :
                      LET o == decode(other.mem, other.addr)
                      IN  o.result = "Ok" =>
                            ((o.variant = dec_out.variant)
                                <=> (TypeInMemory(other) = t))
            /\ Cardinality({CommandOf(k)[1] : k \in KnownOpcodes}) = 21

\* A detach-context-resource record with only its header mapped.
C32_Witness ==
    /\ Decoded
    /\ TypeInMemory(dec_in) = VIRTIO_GPU_CMD_CTX_DETACH_RESOURCE
    /\ HeaderReadable(dec_in)
    /\ ~RecordReadable(dec_in, "virtio_gpu_ctx_resource")
    /\ dec_out = ParserError

\* What is mapped after the bytes decode consumed.
Trailing(in, T) ==
    SubSeq(in.mem.bytes, in.addr + size_of(T) + 1, Len(in.mem.bytes))

\* C33: for every variant, size() on the decoded command is the byte length
\* of the record, header included, that decode read for the opcode; for
\* get-display-info, whose record is the bare header, it is 24, and for
\* attach-backing it is the offset at which the trailing memory entries
\* start.
C33_SizeIsRecordLength ==
    (Decoded /\ dec_out.result = "Ok") =>
        LET n == VirtioGpuCommand_size(dec_out)
        IN  /\ n = size_of(dec_out.struct)
            /\ n = Len(consumed(dec_in, dec_out.struct))
            /\ dec_in.addr + n <= Len(dec_in.mem.bytes)
            /\ dec_out.variant = "CmdGetDisplayInfo" =>
                  n = 24 /\ dec_out.struct = "virtio_gpu_ctrl_hdr"
            /\ dec_out.variant = "CmdResourceAttachBacking" =>
                  /\ n = 32
                  /\ Trailing(dec_in, dec_out.struct) \in Tails

\* An attach-backing record decoded with bytes mapped after it.
C33_Witness ==
    /\ Decoded
    /\ dec_out.result = "Ok"
    /\ dec_out.variant = "CmdResourceAttachBacking"
    /\ Trailing(dec_in, dec_out.struct) = <<9, 9, 9, 9>>
    /\ dec_in.addr = 8

\* The fields of a record lie one right after the other.
Packed(fields) ==
    \A i \in 1..Len(fields) :
        offset_of(fields, i) = sum_of_sizes(SubSeq(fields, 1, i - 1))

\* C34: every record occupies exactly the sum of its field sizes, with no
\* implicit padding: with the 8-byte-aligned header of 24 bytes, the
\* update/move-cursor record (header 24, pos 16, resource_id 4, hot_x 4,
\* padding 4) is 52 bytes, and every other record is as long as its fields
\* together.
C34_NoImplicitPadding ==
    (Decoded /\ dec_out.result = "Ok") =>
        LET fields == Layout(dec_out.struct)
        IN  /\ size_of("virtio_gpu_ctrl_hdr") = 24
            /\ Packed(fields)
            /\ VirtioGpuCommand_size(dec_out) = sum_of_sizes(fields)
            /\ dec_out.struct = "virtio_gpu_update_cursor" =>
                  VirtioGpuCommand_size(dec_out) = 52

(***************************************************************************)
(* The resource table.                                                      *)
(***************************************************************************)
CreateOps == {"cmd_resource_create_2d", "cmd_resource_create_3d"}

\* C35: in every reachable state the resource table holds no record with
\* resource_id 0, and a create-2D or create-3D command for an id that is
\* live never replaces or alters the record of that id: its width and
\* height stay those of the creation until the id is unreferenced.
C35_TableRecordsStable ==
    [][/\ ~contains_key(resources', 0)
       /\ \A id \in DOMAIN resources :
            (\E op \in CreateOps : Runs(op) /\ last_cmd'.cmd.resource_id = id) =>
                /\ contains_key(resources', id)
                /\ resources'[id] = resources[id]]_vars

\* An error response: returned as Err, or an error variant returned as Ok.
ErrorResponse(r) ==
    \/ r.result = "Err"
    \/ r.result = "Ok"
         /\ r.variant \in ProtocolErrors \cup InternalVariants \cup {"DisplayErr"}

\* C36: a command that returns an error response leaves the resource table,
\* the scanout binding and the cursor binding exactly as they were: a create
\* rejected after the query that follows the creation leaves no new record,
\* and a cursor update that fails at the creation of the surface or at the
\* transfer_read leaves the cursor's resource and surface as they were.
C36_ErrorsLeaveBindings ==
    [][(last_cmd.op = "idle" /\ last_cmd'.op # "idle" /\ ErrorResponse(resp')) =>
          UNCHANGED <<resources, scanout_resource_id, scanout_surface_id,
                      cursor_resource_id, cursor_surface_id>>]_vars

(***************************************************************************)
(* The life of the cursor surface.                                          *)
(***************************************************************************)
\* The handles the display gave out and took back: it numbers its surfaces
\* from 1 on and uses no number twice.
Released(d) == (1..(d.next_id - 1)) \ d.surfaces

CursorSurfaceFns == {"set_position", "flip", "flip_to", "framebuffer", "commit"}

\* C37: over any sequence of cursor update, cursor move, flush and
\* set-scanout commands, at most one cursor surface created by the device is
\* live at a time, a created cursor surface is released at most once, and no
\* call of set_position, flip, flip_to, framebuffer or commit is made with a
\* cursor surface handle after that handle was released.
C37_CursorSurfaceLife ==
    [][/\ Cardinality(display'.surfaces) <= 1
       /\ \A i \in 1..Len(calls') :
            LET c == calls'[i]
            IN  /\ c.fn = "release_surface" =>
                      c.args.surface_id \in display.surfaces
                /\ c.fn \in CursorSurfaceFns =>
                      c.args.surface_id \notin Released(display)]_vars

(***************************************************************************)
(* The commands that leave the table and the bindings alone.                *)
(***************************************************************************)
BindingOps == {"cmd_resource_create_2d", "cmd_resource_create_3d",
               "cmd_resource_unref", "cmd_set_scanout", "cmd_update_cursor"}

\* C38: a command other than create, unref, set-scanout and cursor update
\* leaves the resource table and the resource and surface of the scanout and
\* of the cursor unchanged, whatever it returns; get-display-info always
\* returns the list of one element, the configured (width, height).
C38_FrameOfOtherCommands ==
    [][/\ (last_cmd.op = "idle" /\ last_cmd'.op \notin BindingOps \cup {"idle"}) =>
            UNCHANGED <<resources, scanout_resource_id, scanout_surface_id,
                        cursor_resource_id, cursor_surface_id>>
       /\ Runs("cmd_get_display_info") =>
            /\ resp' = OkWith("OkDisplayInfo",
                              <<<<GpuParameter_default.display_width,
                                  GpuParameter_default.display_height>>>>)
            /\ calls' = <<>>]_vars

\* A detach-backing the renderer refused, on a device with a resource, a
\* scanout and a cursor surface.
C38_Witness ==
    /\ last_cmd.op = "cmd_resource_detach_backing"
    /\ resp.result = "Err"
    /\ contains_key(resources, last_cmd.cmd.resource_id)
    /\ is_some(scanout_resource_id)
    /\ is_some(cursor_surface_id)

====
